---- MODULE Spec2Model ----
(***************************************************************************)
(* Shift-management store, session chain calculator, grid resolver and    *)
(* CSV ingestion of nihonbuson/v0-shift-management-app.                    *)
(*                                                                         *)
(* Representation.  An "HH:MM" string is the pair <<h, m>> of the two      *)
(* numbers it prints; the empty / absent string is <<>>.  minutesToTime    *)
(* and timeToMinutes are modelled by what they compute on those numbers,   *)
(* JavaScript's truncating % included.  An identifier is a pair            *)
(* <<prefix, n>>: <<"session", 1>> is 'session-1', <<"id", k>> is the k-th *)
(* value returned by generateId(); the empty roleId '' is <<>>.  A day     *)
(* label `Day ${n}` is <<"Day", n>>.                                       *)
(* A JavaScript object is a record; an optional property that is not set   *)
(* is a field that is not in the record's DOMAIN.                          *)
(***************************************************************************)
EXTENDS Integers, Sequences, FiniteSets, TLC

VARIABLES
    data,     \* the store's ShiftData document (useState in useShiftStore)
    prevData, \* the document before the last mutation
    last,     \* the last mutation: its name and arguments
    steps,    \* number of mutations performed so far
    nextId,   \* number of identifiers generateId() has handed out
    chain,    \* session chain calculator applied to a drawn input
    gridv,    \* grid materializer applied to a drawn day
    csv,      \* state of the CSV parser's row loop
    io        \* the project file component, or a value under validation

vars == <<data, prevData, last, steps, nextId, chain, gridv, csv, io>>

(***************************************************************************)
(* Bounds                                                                  *)
(***************************************************************************)
MaxSteps == 2

(***************************************************************************)
(* JavaScript helpers                                                      *)
(***************************************************************************)
\* a % b of JavaScript for b > 0: the result has the sign of a
JsRem(a, b) == IF a >= 0 THEN a % b ELSE 0 - ((0 - a) % b)

\* { ...r, ...u }
spread(r, u) ==
    [k \in (DOMAIN r) \cup (DOMAIN u) |-> IF k \in DOMAIN u THEN u[k] ELSE r[k]]

Has(r, k) == k \in DOMAIN r

\* r.k || dflt for a property holding a string / array (falsy: absent, '')
OrElse(r, k, dflt) == IF Has(r, k) /\ r[k] # <<>> THEN r[k] ELSE dflt

\* array.filter
RECURSIVE SelectIdx(_, _, _)
SelectIdx(s, Keep(_), i) ==
    IF i > Len(s) THEN <<>>
    ELSE (IF Keep(s[i]) THEN <<s[i]>> ELSE <<>>) \o SelectIdx(s, Keep, i + 1)

Filter(s, Keep(_)) == SelectIdx(s, Keep, 1)

\* array.map
Map(s, F(_)) == [i \in 1..Len(s) |-> F(s[i])]

\* array.findIndex (1-based; 0 when absent)
FindIndex(s, P(_)) ==
    IF \E i \in 1..Len(s) : P(s[i])
    THEN CHOOSE i \in 1..Len(s) : P(s[i]) /\ \A j \in 1..(i - 1) : ~P(s[j])
    ELSE 0

(***************************************************************************)
(* Time utilities (src/lib/types.ts)                                       *)
(***************************************************************************)
timeToMinutes(time) == time[1] * 60 + time[2]

minutesToTime(minutes) == <<minutes \div 60, JsRem(minutes, 60)>>

generateTimeSlots(startTime, endTime, intervalMinutes) ==
    LET start == timeToMinutes(startTime)
        end   == timeToMinutes(endTime)
        n     == IF start >= end THEN 0
                 ELSE ((end - start - 1) \div intervalMinutes) + 1
    IN  [i \in 1..n |-> minutesToTime(start + (i - 1) * intervalMinutes)]

\* generateId(): the n-th identifier of namespace ns; distinct calls never collide
generateId(ns, n) == <<ns, n>>

(***************************************************************************)
(* Default document (src/lib/types.ts)                                     *)
(***************************************************************************)
DEFAULT_ROLES == <<
    [id |-> <<"role", 1>>, name |-> "happyo",     color |-> "#ef4444", textColor |-> "#ffffff"],
    [id |-> <<"role", 2>>, name |-> "support",    color |-> "#3b82f6", textColor |-> "#ffffff"],
    [id |-> <<"role", 3>>, name |-> "satsuei",    color |-> "#22c55e", textColor |-> "#ffffff"],
    [id |-> <<"role", 4>>, name |-> "jimukyoku",  color |-> "#eab308", textColor |-> "#1a1a1a"],
    [id |-> <<"role", 5>>, name |-> "chushoku",   color |-> "#f97316", textColor |-> "#ffffff"],
    [id |-> <<"role", 6>>, name |-> "kyukei",     color |-> "#a855f7", textColor |-> "#ffffff"] >>

DEFAULT_DAYS == <<
    [id |-> 1, label |-> <<"Day", 1>>, dayStartTime |-> <<9, 0>>],
    [id |-> 2, label |-> <<"Day", 2>>, dayStartTime |-> <<9, 0>>] >>

Sess(id, dayId, title, dur, st, en) ==
    [id |-> id, dayId |-> dayId, title |-> title, durationMinutes |-> dur,
     startTime |-> st, endTime |-> en, milestones |-> <<>>]

DEFAULT_SHIFT_DATA == [
    staff |-> <<
        [id |-> <<"staff", 1>>, name |-> "Tanaka"],
        [id |-> <<"staff", 2>>, name |-> "Suzuki"],
        [id |-> <<"staff", 3>>, name |-> "Sato"],
        [id |-> <<"staff", 4>>, name |-> "Takahashi"] >>,
    roles |-> DEFAULT_ROLES,
    sessions |-> <<
        Sess(<<"session", 1>>, 1, "kaikaishiki", 30,  <<9, 0>>,   <<9, 30>>),
        Sess(<<"session", 2>>, 1, "sessionA",    60,  <<9, 30>>,  <<10, 30>>),
        Sess(<<"session", 3>>, 1, "kyukei",      15,  <<10, 30>>, <<10, 45>>),
        Sess(<<"session", 4>>, 1, "sessionB",    75,  <<10, 45>>, <<12, 0>>),
        Sess(<<"session", 5>>, 2, "furikaeri",   60,  <<9, 0>>,   <<10, 0>>),
        Sess(<<"session", 6>>, 2, "workshopC",   120, <<10, 0>>,  <<12, 0>>) >>,
    assignments |-> <<>>,
    staffOverrides |-> <<>>,
    days |-> DEFAULT_DAYS,
    gridStartTime |-> <<8, 0>>,
    gridEndTime |-> <<18, 0>> ]

(***************************************************************************)
(* Session chain calculator (src/lib/types.ts, recomputeSessionTimes)      *)
(***************************************************************************)
\* dayStartOf ignoring the configured start of the day
dayStartOfDefaultOnly(days, dayId) == <<9, 0>>

\* dayStartMap.get(dayId) || '09:00'; a later day with the same id overwrites
dayStartOf(days, dayId) ==
    LET hits == {i \in 1..Len(days) : days[i].id = dayId}
    IN  IF hits = {} THEN <<9, 0>>
        ELSE LET i == CHOOSE j \in hits : \A k \in hits : k <= j
             IN  OrElse(days[i], "dayStartTime", <<9, 0>>)

\* session.durationMinutes || 30
durationOf(session) ==
    IF Has(session, "durationMinutes") /\ session.durationMinutes # 0
    THEN session.durationMinutes ELSE 30

RECURSIVE chainSessions(_, _, _, _)
\* chainSessions with the end time computed from the session's stored
\* startTime instead of the running minute
chainSessionsStaleStart(sessions, days, idx, currentMin) ==
    IF idx > Len(sessions) THEN <<>>
    ELSE LET session  == sessions[idx]
             cur      == IF session.dayId \in DOMAIN currentMin
                         THEN currentMin[session.dayId]
                         ELSE timeToMinutes(dayStartOf(days, session.dayId))
             duration == durationOf(session)
             out      == spread(session,
                            [durationMinutes |-> duration,
                             startTime |-> minutesToTime(cur),
                             endTime |-> minutesToTime(
                                timeToMinutes(session.startTime) + duration)])
             nextMin  == [d \in (DOMAIN currentMin) \cup {session.dayId} |->
                            IF d = session.dayId THEN cur + duration
                            ELSE currentMin[d]]
         IN  <<out>> \o chainSessions(sessions, days, idx + 1, nextMin)

\* the sessions from index idx on; currentMin maps each day already met to
\* the minute at which its next session starts
chainSessions(sessions, days, idx, currentMin) ==
    IF idx > Len(sessions) THEN <<>>
    ELSE LET session  == sessions[idx]
             cur      == IF session.dayId \in DOMAIN currentMin
                         THEN currentMin[session.dayId]
                         ELSE timeToMinutes(dayStartOf(days, session.dayId))
             duration == durationOf(session)
             out      == spread(session,
                            [durationMinutes |-> duration,
                             startTime |-> minutesToTime(cur),
                             endTime |-> minutesToTime(cur + duration)])
             nextMin  == [d \in (DOMAIN currentMin) \cup {session.dayId} |->
                            IF d = session.dayId THEN cur + duration
                            ELSE currentMin[d]]
         IN  <<out>> \o chainSessions(sessions, days, idx + 1, nextMin)

recomputeSessionTimes(sessions, days) ==
    chainSessions(sessions, days, 1, [d \in {} |-> 0])

(***************************************************************************)
(* Store: migration and updateData (src/unnamed/part_004)                  *)
(***************************************************************************)
\* sessionMap.get(id): the last migrated session carrying that id, or <<>>
lookupSession(sessions, id) ==
    LET hits == {i \in 1..Len(sessions) : sessions[i].id = id}
    IN  IF hits = {} THEN <<>>
        ELSE sessions[CHOOSE j \in hits : \A k \in hits : k <= j]

migrateSession(s) ==
    LET duration ==
            IF Has(s, "durationMinutes") /\ s.durationMinutes # 0
            THEN s.durationMinutes
            ELSE IF OrElse(s, "startTime", <<>>) # <<>> /\ OrElse(s, "endTime", <<>>) # <<>>
                 THEN timeToMinutes(s.endTime) - timeToMinutes(s.startTime)
                 ELSE 30
    IN  spread(s, [dayId |-> IF Has(s, "dayId") /\ s.dayId # 0 THEN s.dayId ELSE 1,
                   milestones |-> OrElse(s, "milestones", <<>>),
                   durationMinutes |-> IF duration > 0 THEN duration ELSE 30])

Max2(a, b) == IF a >= b THEN a ELSE b
Min2(a, b) == IF a <= b THEN a ELSE b

migrateOverride(ov, sessionStartMin, sessionDuration) ==
    IF Has(ov, "startOffsetMinutes") /\ Has(ov, "endOffsetMinutes") THEN ov
    ELSE LET ovStartMin == IF OrElse(ov, "startTime", <<>>) # <<>>
                           THEN timeToMinutes(ov.startTime) ELSE 0
             ovEndMin   == IF OrElse(ov, "endTime", <<>>) # <<>>
                           THEN timeToMinutes(ov.endTime) ELSE sessionDuration
         IN  spread(ov,
                [startOffsetMinutes |-> Max2(0, ovStartMin - sessionStartMin),
                 endOffsetMinutes |-> Min2(sessionDuration, ovEndMin - sessionStartMin)])

migrateAssignment(a, sessions) ==
    LET session         == lookupSession(sessions, a.sessionId)
        sessionStartMin == IF session # <<>> THEN timeToMinutes(session.startTime) ELSE 0
        sessionDuration == IF session # <<>> THEN session.durationMinutes ELSE 60
        Mig(ov)         == migrateOverride(ov, sessionStartMin, sessionDuration)
    IN  spread(a, [overrides |-> Map(OrElse(a, "overrides", <<>>), Mig)])

migrateData(raw) ==
    LET days0     == IF Has(raw, "days") THEN raw.days ELSE DEFAULT_DAYS
        FixDay(d) == spread(d, [dayStartTime |-> OrElse(d, "dayStartTime", <<9, 0>>)])
        days1     == Map(days0, FixDay)
        sessions1 == Map(raw.sessions, migrateSession)
        MigA(a)   == migrateAssignment(a, sessions1)
    IN  spread(raw,
            [days |-> days1,
             assignments |-> Map(raw.assignments, MigA),
             staffOverrides |-> IF Has(raw, "staffOverrides") THEN raw.staffOverrides ELSE <<>>,
             sessions |-> recomputeSessionTimes(sessions1, days1)])

\* updateData that never recomputes the session times
updateDataNoRecompute(raw, skipRecompute) == raw

\* updateData: the document the store holds after the updater has run
updateData(raw, skipRecompute) ==
    IF skipRecompute THEN raw
    ELSE spread(raw, [sessions |-> recomputeSessionTimes(raw.sessions, raw.days)])

(***************************************************************************)
(* Store: the updaters of the mutations (src/unnamed/part_004)             *)
(***************************************************************************)
addStaff(d, id, name) ==
    spread(d, [staff |-> Append(d.staff, [id |-> id, name |-> name])])

updateStaff(d, id, name) ==
    LET Upd(s) == IF s.id = id THEN spread(s, [name |-> name]) ELSE s
    IN  spread(d, [staff |-> Map(d.staff, Upd)])

\* removeStaff without the cascade to the staff overrides
removeStaffKeepOverrides(d, id) ==
    LET KeepS(s)  == s.id # id
        KeepA(a)  == a.staffId # id
    IN  spread(d, [staff |-> Filter(d.staff, KeepS),
                   assignments |-> Filter(d.assignments, KeepA)])

removeStaff(d, id) ==
    LET KeepS(s)  == s.id # id
        KeepA(a)  == a.staffId # id
        KeepO(so) == so.staffId # id
    IN  spread(d, [staff |-> Filter(d.staff, KeepS),
                   assignments |-> Filter(d.assignments, KeepA),
                   staffOverrides |-> Filter(d.staffOverrides, KeepO)])

addRole(d, id, name, color, textColor) ==
    spread(d, [roles |-> Append(d.roles,
        [id |-> id, name |-> name, color |-> color, textColor |-> textColor])])

updateRole(d, id, updates) ==
    LET Upd(r) == IF r.id = id THEN spread(r, updates) ELSE r
    IN  spread(d, [roles |-> Map(d.roles, Upd)])

\* removeRole without the cascade to the assignments
removeRoleOnly(d, id) ==
    LET KeepR(r) == r.id # id
    IN  spread(d, [roles |-> Filter(d.roles, KeepR)])

removeRole(d, id) ==
    LET KeepR(r) == r.id # id
        KeepA(a) == a.roleId # id
    IN  spread(d, [roles |-> Filter(d.roles, KeepR),
                   assignments |-> Filter(d.assignments, KeepA)])

updateDay(d, dayId, updates) ==
    LET Upd(day) == IF day.id = dayId THEN spread(day, updates) ELSE day
    IN  spread(d, [days |-> Map(d.days, Upd)])

addSession(d, id, dayId, title, durationMinutes) ==
    spread(d, [sessions |-> Append(d.sessions,
        [id |-> id, dayId |-> dayId, title |-> title,
         durationMinutes |-> durationMinutes,
         startTime |-> <<0, 0>>, endTime |-> <<0, 0>>, milestones |-> <<>>])])

\* indices (in array order) of the sessions of the day of session sessionId
dayIndicesOf(sessions, dayId) ==
    LET InDay(i) == sessions[i].dayId = dayId
    IN  Filter([i \in 1..Len(sessions) |-> i], InDay)

\* reorderSession swapping with the neighbour in the master list instead of
\* the neighbour within the day
reorderSessionMasterNeighbour(d, sessionId, direction) ==
    LET IsIt(s) == s.id = sessionId
        idxA    == FindIndex(d.sessions, IsIt)
        idxB    == IF direction = "up" THEN idxA - 1 ELSE idxA + 1
    IN  IF idxA = 0 \/ idxB < 1 \/ idxB > Len(d.sessions) THEN d
        ELSE spread(d, [sessions |->
                [i \in 1..Len(d.sessions) |->
                    IF i = idxA THEN d.sessions[idxB]
                    ELSE IF i = idxB THEN d.sessions[idxA]
                    ELSE d.sessions[i]]])

\* reorderSession going round: the first of the day moved up changes places
\* with the last, the last moved down with the first
reorderSessionWrapAround(d, sessionId, direction) ==
    LET IsIt(s) == s.id = sessionId
        found   == FindIndex(d.sessions, IsIt)
    IN  IF found = 0 THEN d
        ELSE LET dayIndices == dayIndicesOf(d.sessions, d.sessions[found].dayId)
                 AtId(idx)  == d.sessions[idx].id = sessionId
                 posInDay   == FindIndex(dayIndices, AtId)
                 swapPos    == IF direction = "up"
                               THEN (IF posInDay = 1 THEN Len(dayIndices) ELSE posInDay - 1)
                               ELSE (IF posInDay = Len(dayIndices) THEN 1 ELSE posInDay + 1)
                 idxA == dayIndices[posInDay]
                 idxB == dayIndices[swapPos]
             IN  spread(d, [sessions |->
                    [i \in 1..Len(d.sessions) |->
                        IF i = idxA THEN d.sessions[idxB]
                        ELSE IF i = idxB THEN d.sessions[idxA]
                        ELSE d.sessions[i]]])

reorderSession(d, sessionId, direction) ==
    LET IsIt(s) == s.id = sessionId
        found   == FindIndex(d.sessions, IsIt)
    IN  IF found = 0 THEN d
        ELSE LET dayIndices == dayIndicesOf(d.sessions, d.sessions[found].dayId)
                 AtId(idx)  == d.sessions[idx].id = sessionId
                 posInDay   == FindIndex(dayIndices, AtId)
                 swapPos    == IF direction = "up" THEN posInDay - 1 ELSE posInDay + 1
             IN  IF posInDay < 1 THEN d
                 ELSE IF swapPos < 1 \/ swapPos > Len(dayIndices) THEN d
                 ELSE LET idxA == dayIndices[posInDay]
                          idxB == dayIndices[swapPos]
                      IN  spread(d, [sessions |->
                            [i \in 1..Len(d.sessions) |->
                                IF i = idxA THEN d.sessions[idxB]
                                ELSE IF i = idxB THEN d.sessions[idxA]
                                ELSE d.sessions[i]]])

updateSession(d, id, updates) ==
    LET Upd(s) == IF s.id = id THEN spread(s, updates) ELSE s
    IN  spread(d, [sessions |-> Map(d.sessions, Upd)])

\* removeSession without the cascade to the assignments
removeSessionOnly(d, id) ==
    LET KeepS(s) == s.id # id
    IN  spread(d, [sessions |-> Filter(d.sessions, KeepS)])

removeSession(d, id) ==
    LET KeepS(s) == s.id # id
        KeepA(a) == a.sessionId # id
    IN  spread(d, [sessions |-> Filter(d.sessions, KeepS),
                   assignments |-> Filter(d.assignments, KeepA)])

\* setAssignment that adds a record whether or not the pair has one
setAssignmentAlwaysAppend(d, sessionId, staffId, roleId) ==
    LET NotPair(a) == ~(a.sessionId = sessionId /\ a.staffId = staffId)
    IN  spread(d, [assignments |->
            IF roleId = <<>> THEN Filter(d.assignments, NotPair)
            ELSE Append(d.assignments,
                    [sessionId |-> sessionId, staffId |-> staffId,
                     roleId |-> roleId, overrides |-> <<>>])])

\* setAssignment that writes a fresh record over the one the pair has
setAssignmentFreshRecord(d, sessionId, staffId, roleId) ==
    LET IsPair(a) == a.sessionId = sessionId /\ a.staffId = staffId
        NotPair(a) == ~IsPair(a)
        existing  == FindIndex(d.assignments, IsPair)
        fresh == [sessionId |-> sessionId, staffId |-> staffId,
                  roleId |-> roleId, overrides |-> <<>>]
    IN  spread(d, [assignments |->
            IF roleId = <<>> THEN Filter(d.assignments, NotPair)
            ELSE IF existing >= 1
                 THEN [i \in 1..Len(d.assignments) |->
                         IF i = existing THEN fresh ELSE d.assignments[i]]
                 ELSE Append(d.assignments, fresh)])

setAssignment(d, sessionId, staffId, roleId) ==
    LET IsPair(a) == a.sessionId = sessionId /\ a.staffId = staffId
        NotPair(a) == ~IsPair(a)
        existing  == FindIndex(d.assignments, IsPair)
        newAssignments ==
            IF roleId = <<>> THEN Filter(d.assignments, NotPair)
            ELSE IF existing >= 1
                 THEN [i \in 1..Len(d.assignments) |->
                         IF i = existing
                         THEN spread(d.assignments[i], [roleId |-> roleId])
                         ELSE d.assignments[i]]
                 ELSE Append(d.assignments,
                        [sessionId |-> sessionId, staffId |-> staffId,
                         roleId |-> roleId, overrides |-> <<>>])
    IN  spread(d, [assignments |-> newAssignments])

setAssignmentNote(d, sessionId, staffId, note) ==
    LET Upd(a) == IF a.sessionId = sessionId /\ a.staffId = staffId
                  THEN spread(a, [note |-> note]) ELSE a
    IN  spread(d, [assignments |-> Map(d.assignments, Upd)])

\* addOverride that gives the pair an assignment when it has none
addOverrideCreating(d, sessionId, staffId, override, id) ==
    LET IsPair(a) == a.sessionId = sessionId /\ a.staffId = staffId
        Upd(a) == IF IsPair(a)
                  THEN spread(a, [overrides |->
                          Append(OrElse(a, "overrides", <<>>), spread(override, [id |-> id]))])
                  ELSE a
    IN  spread(d, [assignments |->
            IF FindIndex(d.assignments, IsPair) >= 1 THEN Map(d.assignments, Upd)
            ELSE Append(d.assignments,
                    [sessionId |-> sessionId, staffId |-> staffId, roleId |-> <<>>,
                     overrides |-> << spread(override, [id |-> id]) >>])])

addOverride(d, sessionId, staffId, override, id) ==
    LET Upd(a) == IF a.sessionId = sessionId /\ a.staffId = staffId
                  THEN spread(a, [overrides |->
                          Append(OrElse(a, "overrides", <<>>), spread(override, [id |-> id]))])
                  ELSE a
    IN  spread(d, [assignments |-> Map(d.assignments, Upd)])

updateOverride(d, sessionId, staffId, overrideId, updates) ==
    LET UpdO(o) == IF o.id = overrideId THEN spread(o, updates) ELSE o
        Upd(a)  == IF a.sessionId = sessionId /\ a.staffId = staffId
                   THEN spread(a, [overrides |-> Map(OrElse(a, "overrides", <<>>), UpdO)])
                   ELSE a
    IN  spread(d, [assignments |-> Map(d.assignments, Upd)])

removeOverride(d, sessionId, staffId, overrideId) ==
    LET KeepO(o) == o.id # overrideId
        Upd(a)   == IF a.sessionId = sessionId /\ a.staffId = staffId
                    THEN spread(a, [overrides |-> Filter(OrElse(a, "overrides", <<>>), KeepO)])
                    ELSE a
    IN  spread(d, [assignments |-> Map(d.assignments, Upd)])

addMilestone(d, sessionId, milestone, id) ==
    LET Upd(s) == IF s.id = sessionId
                  THEN spread(s, [milestones |->
                          Append(OrElse(s, "milestones", <<>>), spread(milestone, [id |-> id]))])
                  ELSE s
    IN  spread(d, [sessions |-> Map(d.sessions, Upd)])

updateMilestone(d, sessionId, milestoneId, updates) ==
    LET UpdM(m) == IF m.id = milestoneId THEN spread(m, updates) ELSE m
        Upd(s)  == IF s.id = sessionId
                   THEN spread(s, [milestones |-> Map(OrElse(s, "milestones", <<>>), UpdM)])
                   ELSE s
    IN  spread(d, [sessions |-> Map(d.sessions, Upd)])

removeMilestone(d, sessionId, milestoneId) ==
    LET KeepM(m) == m.id # milestoneId
        Upd(s)   == IF s.id = sessionId
                    THEN spread(s, [milestones |-> Filter(OrElse(s, "milestones", <<>>), KeepM)])
                    ELSE s
    IN  spread(d, [sessions |-> Map(d.sessions, Upd)])

addStaffOverride(d, override, id) ==
    spread(d, [staffOverrides |-> Append(d.staffOverrides, spread(override, [id |-> id]))])

updateStaffOverride(d, id, updates) ==
    LET Upd(so) == IF so.id = id THEN spread(so, updates) ELSE so
    IN  spread(d, [staffOverrides |-> Map(d.staffOverrides, Upd)])

removeStaffOverride(d, id) ==
    LET Keep(so) == so.id # id
    IN  spread(d, [staffOverrides |-> Filter(d.staffOverrides, Keep)])

setGridTimes(d, startTime, endTime) ==
    spread(d, [gridStartTime |-> startTime, gridEndTime |-> endTime])

importData(d, importedData) == spread(d, importedData)

replaceData(d, newData) == migrateData(newData)

resetData(d) == DEFAULT_SHIFT_DATA

(***************************************************************************)
(* CSV ingestion (src/unnamed/part_002, parseCSV)                          *)
(*                                                                         *)
(* A cell is what the parser can observe of its trimmed text:             *)
(*   kind  "blank" | "time" (matches TIME_REGEX) | "date" (contains a date)*)
(*         | "text" (shorter than 20 characters) | "long"                  *)
(*   text  the trimmed text                                                *)
(*   time  for a time cell, the text padded to five characters, as <<h,m>> *)
(*   date  for a date cell, the label detectDateInRow builds from it       *)
(***************************************************************************)
Blank == [kind |-> "blank", text |-> "", time |-> <<>>, date |-> ""]
Tm(text, hm) == [kind |-> "time", text |-> text, time |-> hm, date |-> ""]
Dt(text, label) == [kind |-> "date", text |-> text, time |-> <<>>, date |-> label]
Tx(text) == [kind |-> "text", text |-> text, time |-> <<>>, date |-> ""]
Lg(text) == [kind |-> "long", text |-> text, time |-> <<>>, date |-> ""]

\* (row[c] || '').trim() for a 0-based column c
cellAt(row, c) == IF c + 1 <= Len(row) THEN row[c + 1] ELSE Blank

\* the label built from the first cell that holds a date, '' (null) when none
detectDateInRow(row) ==
    LET IsDate(c) == c.kind = "date"
        i == FindIndex(row, IsDate)
    IN  IF i = 0 THEN "" ELSE row[i].date

\* isStaffHeaderRow counting the names from the third column on
isStaffHeaderRowFromThird(row) ==
    /\ Len(row) >= 3
    /\ Cardinality({c \in 3..Len(row) : row[c].kind = "text"}) >= 2

isStaffHeaderRow(row) ==
    /\ Len(row) >= 3
    /\ Cardinality({c \in 2..Len(row) : row[c].kind = "text"}) >= 2

isTimeRow(row) == Len(row) > 0 /\ row[1].kind = "time"

\* the non-empty cells from column staffStartCol = 1 on
staffNamesOf(row) ==
    LET NonEmpty(c) == c.kind # "blank"
        Text(c)     == c.text
    IN  Map(Filter(SubSeq(row, 2, Len(row)), NonEmpty), Text)

ROLE_PALETTE == << "#ef4444", "#3b82f6", "#22c55e", "#eab308", "#a855f7",
                   "#ec4899", "#14b8a6", "#f97316", "#6366f1", "#84cc16" >>

\* roleNameMap.get(name): 0 when the name is unknown
roleIndexByName(roles, name) ==
    LET hits == {i \in 1..Len(roles) : roles[i].name = name}
    IN  IF hits = {} THEN 0 ELSE CHOOSE j \in hits : \A k \in hits : k <= j

\* parser state after construction of the accumulators
csvStart(rows, currentRoles) == [
    rows |-> rows, rowIdx |-> 1, state |-> "SEEK_DAY",
    allRoles |-> currentRoles, ids |-> 0,
    globalStaffNames |-> <<>>, globalStaff |-> <<>>,
    dayResults |-> <<>>, allSessions |-> <<>>, allAssignments |-> <<>>,
    allDays |-> <<>>, currentDayId |-> 0, currentDateLabel |-> "",
    activePerStaff |-> <<>>, lastTime |-> <<>>, daySessionCount |-> 0 ]

\* allSessions.find without the test of the day
runSessionIndexAnyDay(p, si, endTime) ==
    LET hits == {i \in 1..Len(p.allSessions) :
                    /\ p.allSessions[i].startTime = p.activePerStaff[si].startTime
                    /\ p.allSessions[i].endTime = endTime}
    IN  IF hits = {} THEN 0 ELSE CHOOSE j \in hits : \A k \in hits : j <= k

\* allSessions.find(same day, start of the run of column si, endTime): its
\* index, 0 when there is none
runSessionIndex(p, si, endTime) ==
    LET hits == {i \in 1..Len(p.allSessions) :
                    /\ p.allSessions[i].dayId = p.currentDayId
                    /\ p.allSessions[i].startTime = p.activePerStaff[si].startTime
                    /\ p.allSessions[i].endTime = endTime}
    IN  IF hits = {} THEN 0 ELSE CHOOSE j \in hits : \A k \in hits : j <= k

\* if (!session) { session = {...}; allSessions.push(session); daySessionCount++ }
findOrCreateSession(p, si, endTime) ==
    IF runSessionIndex(p, si, endTime) # 0 THEN p
    ELSE spread(p, [
            ids |-> p.ids + 1,
            allSessions |-> Append(p.allSessions,
                [id |-> generateId("csv", p.ids + 1), dayId |-> p.currentDayId,
                 title |-> IF p.activePerStaff[si].roleName # ""
                           THEN p.activePerStaff[si].roleName ELSE "session",
                 startTime |-> p.activePerStaff[si].startTime,
                 endTime |-> endTime]),
            daySessionCount |-> p.daySessionCount + 1 ])

\* getOrCreateRole taking the colour by the length of the list after the
\* push
getOrCreateRoleColorAfterPush(p, name) ==
    IF name = "" \/ roleIndexByName(p.allRoles, name) # 0 THEN p
    ELSE spread(p, [
            ids |-> p.ids + 1,
            allRoles |-> Append(p.allRoles,
                [id |-> generateId("csv", p.ids + 1), name |-> name,
                 color |-> ROLE_PALETTE[((Len(p.allRoles) + 1) % Len(ROLE_PALETTE)) + 1],
                 textColor |-> "#ffffff"]) ])

\* getOrCreateRole(name): the role table after the call
getOrCreateRole(p, name) ==
    IF name = "" \/ roleIndexByName(p.allRoles, name) # 0 THEN p
    ELSE spread(p, [
            ids |-> p.ids + 1,
            allRoles |-> Append(p.allRoles,
                [id |-> generateId("csv", p.ids + 1), name |-> name,
                 color |-> ROLE_PALETTE[(Len(p.allRoles) % Len(ROLE_PALETTE)) + 1],
                 textColor |-> "#ffffff"]) ])

\* if (role) allAssignments.push({...}); activePerStaff[si] = null
pushAssignment(p, si, endTime) ==
    spread(p, [
        allAssignments |->
            IF p.activePerStaff[si].roleName = "" THEN p.allAssignments
            ELSE Append(p.allAssignments,
                    [sessionId |-> p.allSessions[runSessionIndex(p, si, endTime)].id,
                     staffId |-> p.globalStaff[si].id,
                     roleId |-> p.allRoles[roleIndexByName(p.allRoles,
                                    p.activePerStaff[si].roleName)].id,
                     overrides |-> <<>>]),
        activePerStaff |-> [p.activePerStaff EXCEPT ![si] = <<>>] ])

\* closes the run of staff column si (1-based) at endTime
closeRun(p, si, endTime) ==
    pushAssignment(
        getOrCreateRole(findOrCreateSession(p, si, endTime),
                        p.activePerStaff[si].roleName),
        si, endTime)

RECURSIVE finishActiveRuns(_, _, _)
finishActiveRuns(p, endTime, si) ==
    IF si > Len(p.globalStaffNames) THEN p
    ELSE finishActiveRuns(
            IF p.activePerStaff[si] = <<>> THEN p ELSE closeRun(p, si, endTime),
            endTime, si + 1)

\* dayResults.push({...}) of finalizeCurrentDay
pushDayResult(p) ==
    LET InDay(s) == s.dayId = p.currentDayId
        OfDay(a) == \E i \in 1..Len(p.allSessions) :
                        /\ p.allSessions[i].dayId = p.currentDayId
                        /\ p.allSessions[i].id = a.sessionId
    IN  spread(p, [dayResults |-> Append(p.dayResults,
            [dayId |-> p.currentDayId, dateLabel |-> p.currentDateLabel,
             sessions |-> Filter(p.allSessions, InDay),
             assignments |-> Filter(p.allAssignments, OfDay),
             sessionCount |-> Len(Filter(p.allSessions, InDay))])])

\* finalizeCurrentDay closing the open runs at the last tick itself
finalizeCurrentDayAtLastTick(p) ==
    IF p.currentDayId = 0 THEN p
    ELSE pushDayResult(
            IF p.lastTime # <<>> THEN finishActiveRuns(p, p.lastTime, 1) ELSE p)

finalizeCurrentDay(p) ==
    IF p.currentDayId = 0 THEN p
    ELSE pushDayResult(
            IF p.lastTime # <<>>
            THEN finishActiveRuns(p,
                    minutesToTime(p.lastTime[1] * 60 + p.lastTime[2] + 5), 1)
            ELSE p)

\* startNewDay after its call of finalizeCurrentDay
beginDay(p, dateLabel) ==
    spread(p, [
        currentDayId |-> p.currentDayId + 1,
        currentDateLabel |-> dateLabel,
        allDays |-> Append(p.allDays,
            [id |-> p.currentDayId + 1, label |-> <<"Day", p.currentDayId + 1>>,
             date |-> dateLabel]),
        activePerStaff |-> [i \in 1..Len(p.globalStaffNames) |-> <<>>],
        lastTime |-> <<>>,
        daySessionCount |-> 0 ])

startNewDay(p, dateLabel) == beginDay(finalizeCurrentDay(p), dateLabel)

\* globalStaffNames, globalStaff and activePerStaff built from the names
withStaff(p, names) ==
    spread(p, [
        globalStaffNames |-> names,
        globalStaff |-> [i \in 1..Len(names) |->
                            [id |-> generateId("csv", p.ids + i), name |-> names[i]]],
        ids |-> p.ids + Len(names),
        activePerStaff |-> [i \in 1..Len(names) |-> <<>>] ])

\* the staff list is taken from the first header row only
adoptStaff(p, row) ==
    IF Len(p.globalStaffNames) # 0 THEN p ELSE withStaff(p, staffNamesOf(row))

\* closeIfChanged closing the run at the previous tick instead of the
\* current one
closeIfChangedAtLastTick(p, cellValue, timeCell, si) ==
    IF p.activePerStaff[si] # <<>> /\ p.activePerStaff[si].roleName # cellValue
    THEN closeRun(p, si, p.lastTime) ELSE p

\* if (prevActive && prevActive.roleName !== cellValue) { close the run }
closeIfChanged(p, cellValue, timeCell, si) ==
    IF p.activePerStaff[si] # <<>> /\ p.activePerStaff[si].roleName # cellValue
    THEN closeRun(p, si, timeCell) ELSE p

\* if (cellValue && ...) { open a run } else if (!cellValue && active) { close }
openOrClose(p, cellValue, timeCell, si) ==
    IF /\ cellValue # ""
       /\ (p.activePerStaff[si] = <<>> \/ p.activePerStaff[si].roleName # cellValue)
    THEN spread(p, [activePerStaff |-> [p.activePerStaff EXCEPT ![si] =
                        [roleName |-> cellValue, startTime |-> timeCell]]])
    ELSE IF cellValue = "" /\ p.activePerStaff[si] # <<>>
         THEN closeRun(p, si, timeCell)
         ELSE p

\* one staff column of a time row
tickStaff(p, row, timeCell, si) ==
    openOrClose(closeIfChanged(p, cellAt(row, si).text, timeCell, si),
                cellAt(row, si).text, timeCell, si)

RECURSIVE tickColumns(_, _, _, _)
tickColumns(p, row, timeCell, si) ==
    IF si > Len(p.globalStaffNames) THEN p
    ELSE tickColumns(tickStaff(p, row, timeCell, si), row, timeCell, si + 1)

setState(p, state) == spread(p, [state |-> state])

\* the loop's rowIdx++
nextRow(p) == spread(p, [rowIdx |-> p.rowIdx + 1])

\* case 'SEEK_DAY' for the row
seekDayCase(p, row) ==
    IF detectDateInRow(row) # ""
    THEN setState(startNewDay(p, detectDateInRow(row)), "SEEK_HEADER")
    ELSE IF isStaffHeaderRow(row)
         THEN setState(adoptStaff(startNewDay(p, ""), row), "READING_DATA")
         ELSE p

\* one iteration of the row loop in state SEEK_DAY
seekDayRow(p) == nextRow(seekDayCase(p, p.rows[p.rowIdx]))

\* case 'SEEK_HEADER' stepping back to the time row without leaving the state
seekHeaderCaseStay(p, row) ==
    IF isStaffHeaderRow(row)
    THEN nextRow(setState(adoptStaff(p, row), "READING_DATA"))
    ELSE IF isTimeRow(row) /\ Len(p.globalStaffNames) > 0
         THEN spread(p, [activePerStaff |->
                            [i \in 1..Len(p.globalStaffNames) |-> <<>>]])
         ELSE nextRow(p)

\* case 'SEEK_HEADER' for the row, the loop's rowIdx++ included
seekHeaderCase(p, row) ==
    IF isStaffHeaderRow(row)
    THEN nextRow(setState(adoptStaff(p, row), "READING_DATA"))
    ELSE IF isTimeRow(row) /\ Len(p.globalStaffNames) > 0
         THEN \* rowIdx-- and the loop's rowIdx++: the row is handled again
              spread(p, [activePerStaff |->
                            [i \in 1..Len(p.globalStaffNames) |-> <<>>],
                         state |-> "READING_DATA"])
         ELSE nextRow(p)

\* one iteration of the row loop in state SEEK_HEADER
seekHeaderRow(p) == seekHeaderCase(p, p.rows[p.rowIdx])

\* case 'READING_DATA' going back to SEEK_DAY at a date row
readingDataCaseSeekDay(p, row) ==
    IF detectDateInRow(row) # "" /\ ~isTimeRow(row)
    THEN setState(startNewDay(p, detectDateInRow(row)), "SEEK_DAY")
    ELSE IF ~isTimeRow(row) THEN p
    ELSE spread(tickColumns(p, row, row[1].time, 1), [lastTime |-> row[1].time])

\* case 'READING_DATA' for the row
readingDataCase(p, row) ==
    IF detectDateInRow(row) # "" /\ ~isTimeRow(row)
    THEN setState(startNewDay(p, detectDateInRow(row)), "SEEK_HEADER")
    ELSE IF ~isTimeRow(row) THEN p
    ELSE spread(tickColumns(p, row, row[1].time, 1), [lastTime |-> row[1].time])

\* one iteration of the row loop in state READING_DATA
readingDataRow(p) == nextRow(readingDataCase(p, p.rows[p.rowIdx]))

csvRow(p) ==
    IF p.state = "SEEK_DAY" THEN seekDayRow(p)
    ELSE IF p.state = "SEEK_HEADER" THEN seekHeaderRow(p)
    ELSE readingDataRow(p)

\* the first of the sessions with the same day and interval
mergedIndex(sessions, i) ==
    CHOOSE j \in 1..i :
        /\ sessions[j].dayId = sessions[i].dayId
        /\ sessions[j].startTime = sessions[i].startTime
        /\ sessions[j].endTime = sessions[i].endTime
        /\ \A k \in 1..(j - 1) :
              ~(/\ sessions[k].dayId = sessions[i].dayId
                /\ sessions[k].startTime = sessions[i].startTime
                /\ sessions[k].endTime = sessions[i].endTime)

\* mergedSessions: the sessions that are the first of their day and interval
mergedSessionsOf(all) ==
    LET IsFirst(i) == mergedIndex(all, i) = i
        At(i) == all[i]
    IN  Map(Filter([i \in 1..Len(all) |-> i], IsFirst), At)

\* sessionIdRemap.get(id) || id
remapOf(all, id) ==
    LET hits == {i \in 1..Len(all) : all[i].id = id}
    IN  IF hits = {} THEN id
        ELSE all[mergedIndex(all, CHOOSE j \in hits : \A k \in hits : k <= j)].id

\* the feedback messages, by what they report
\* warningsOf reporting the number of staff even when there is none
warningsOfAlwaysCount(p, mergedSessions) ==
    <<[kind |-> "staffCount", count |-> Len(p.globalStaff)]>>
    \o (IF Len(p.dayResults) = 0 /\ Len(p.globalStaff) = 0
        THEN <<[kind |-> "noData"]>> ELSE <<>>)

warningsOf(p, mergedSessions) ==
    LET DayWarning(dr) ==
            [kind |-> "daySessions", day |-> dr.dayId, label |-> dr.dateLabel,
             count |-> Cardinality({i \in 1..Len(mergedSessions) :
                                        mergedSessions[i].dayId = dr.dayId})]
    IN  (IF Len(p.globalStaff) > 0
         THEN <<[kind |-> "staffCount", count |-> Len(p.globalStaff)]>> ELSE <<>>)
        \o Map(p.dayResults, DayWarning)
        \o (IF Len(p.dayResults) = 0 /\ Len(p.globalStaff) = 0
            THEN <<[kind |-> "noData"]>> ELSE <<>>)

\* the ParsedResult built from the accumulators after the last finalize
buildResult(p, mergedSessions) ==
    LET Remap(a) == spread(a, [sessionId |-> remapOf(p.allSessions, a.sessionId)])
    IN  [staff |-> p.globalStaff,
         days |-> IF Len(p.allDays) > 0 THEN p.allDays
                  ELSE <<[id |-> 1, label |-> <<"Day", 1>>], [id |-> 2, label |-> <<"Day", 2>>]>>,
         sessions |-> mergedSessions,
         roles |-> p.allRoles,
         assignments |-> Map(p.allAssignments, Remap),
         dayResults |-> p.dayResults,
         warnings |-> warningsOf(p, mergedSessions)]

sessionsOf(p) == mergedSessionsOf(p.allSessions)

finishParse(p) == buildResult(p, sessionsOf(p))

\* everything after the row loop: finalize, merge sessions, warnings, result
csvResult(p0) == finishParse(finalizeCurrentDay(p0))

RECURSIVE csvLoop(_)
csvLoop(p) == IF p.rowIdx > Len(p.rows) THEN p ELSE csvLoop(csvRow(p))

parseCSV(rows, currentRoles) == csvResult(csvLoop(csvStart(rows, currentRoles)))

(***************************************************************************)
(* Grid materializer (src/components/shift-grid.tsx)                       *)
(***************************************************************************)
EMPTY_CELL == [
    sessionId |-> <<>>, roleId |-> <<>>, roleName |-> "", roleColor |-> "",
    roleTextColor |-> "", sessionTitle |-> "", isOverride |-> FALSE,
    isGlobalOverride |-> FALSE, note |-> "", milestones |-> <<>> ]

\* [...sessions].sort by timeToMinutes(startTime); the sort is stable
RECURSIVE insertByStart(_, _)
insertByStart(sorted, s) ==
    IF sorted = <<>> THEN <<s>>
    ELSE IF timeToMinutes(s.startTime) < timeToMinutes(Head(sorted).startTime)
         THEN <<s>> \o sorted
         ELSE <<Head(sorted)>> \o insertByStart(Tail(sorted), s)

RECURSIVE sortByStart(_, _)
sortByStart(sessions, n) ==
    IF n = 0 THEN <<>>
    ELSE insertByStart(sortByStart(sessions, n - 1), sessions[n])

sortedSessionsOf(sessions) == sortByStart(sessions, Len(sessions))

\* roleMap.get(roleId): <<>> when absent
roleOf(roles, roleId) ==
    LET hits == {i \in 1..Len(roles) : roles[i].id = roleId}
    IN  IF hits = {} THEN <<>> ELSE roles[CHOOSE j \in hits : \A k \in hits : k <= j]

\* assignmentOf looking the assignment up by the staff member alone: the
\* first assignment of the staff member, whatever its session
assignmentOfAnySession(assignments, sessionId, staffId) ==
    LET hits == {i \in 1..Len(assignments) : assignments[i].staffId = staffId}
    IN  IF hits = {} THEN <<>>
        ELSE assignments[CHOOSE j \in hits : \A k \in hits : j <= k]

\* assignMap.get(`${sessionId}::${staffId}`): <<>> when absent
assignmentOf(assignments, sessionId, staffId) ==
    LET hits == {i \in 1..Len(assignments) :
                    assignments[i].sessionId = sessionId /\ assignments[i].staffId = staffId}
    IN  IF hits = {} THEN <<>>
        ELSE assignments[CHOOSE j \in hits : \A k \in hits : k <= j]

\* sessionMilestoneMap.get(sessionId)?.get(slot) ?? []
slotMilestones(sessions, sessionId, slot) ==
    LET hits == {i \in 1..Len(sessions) :
                    sessions[i].id = sessionId /\ OrElse(sessions[i], "milestones", <<>>) # <<>>}
    IN  IF hits = {} THEN <<>>
        ELSE LET session == sessions[CHOOSE j \in hits : \A k \in hits : k <= j]
                 baseMin == timeToMinutes(session.startTime)
                 Here(ms) == /\ ms.label # ""
                             /\ minutesToTime(((baseMin + ms.offsetMinutes) \div 5) * 5) = slot
                 Resolve(ms) == [time |-> minutesToTime(baseMin + ms.offsetMinutes),
                                 label |-> ms.label]
             IN  Map(Filter(session.milestones, Here), Resolve)

\* index in sortedSessions of the first session whose [start, end) holds slotMin
sessionIndexAt(sortedSessions, slotMin) ==
    LET In(session) == /\ slotMin >= timeToMinutes(session.startTime)
                       /\ slotMin < timeToMinutes(session.endTime)
    IN  FindIndex(sortedSessions, In)

roleNameOf(role) == IF role = <<>> THEN "" ELSE role.name
roleColorOf(role) == IF role = <<>> THEN "" ELSE role.color
roleTextColorOf(role) == IF role = <<>> THEN "" ELSE role.textColor

\* globalOverrideCell taking the last active override of the staff member's
\* list instead of the first
globalOverrideCellLastWins(slot, staffId, sessions, sortedSessions, roles, staffOverrides) ==
    LET slotMin == timeToMinutes(slot)
        Mine(so) == so.staffId = staffId
        globalOvs == Filter(staffOverrides, Mine)
        active == {i \in 1..Len(globalOvs) :
                      /\ slotMin >= timeToMinutes(globalOvs[i].startTime)
                      /\ slotMin < timeToMinutes(globalOvs[i].endTime)}
    IN  IF active = {} THEN <<>>
        ELSE LET ov   == globalOvs[CHOOSE i \in active : \A j \in active : j <= i]
                 role == roleOf(roles, ov.roleId)
                 si   == sessionIndexAt(sortedSessions, slotMin)
             IN  [sessionId |-> <<>>, roleId |-> ov.roleId,
                  roleName |-> roleNameOf(role), roleColor |-> roleColorOf(role),
                  roleTextColor |-> roleTextColorOf(role),
                  sessionTitle |-> "", isOverride |-> TRUE, isGlobalOverride |-> TRUE,
                  note |-> IF Has(ov, "note") THEN ov.note ELSE "",
                  milestones |-> IF si = 0 THEN <<>>
                                 ELSE slotMilestones(sessions, sortedSessions[si].id, slot)]

\* Priority 1: the cell of a global staff override, <<>> when none is active
globalOverrideCell(slot, staffId, sessions, sortedSessions, roles, staffOverrides) ==
    LET slotMin == timeToMinutes(slot)
        Mine(so) == so.staffId = staffId
        globalOvs == Filter(staffOverrides, Mine)
        Active(so) == /\ slotMin >= timeToMinutes(so.startTime)
                      /\ slotMin < timeToMinutes(so.endTime)
        hit == FindIndex(globalOvs, Active)
    IN  IF hit = 0 THEN <<>>
        ELSE LET ov   == globalOvs[hit]
                 role == roleOf(roles, ov.roleId)
                 si   == sessionIndexAt(sortedSessions, slotMin)
             IN  [sessionId |-> <<>>, roleId |-> ov.roleId,
                  roleName |-> roleNameOf(role), roleColor |-> roleColorOf(role),
                  roleTextColor |-> roleTextColorOf(role),
                  sessionTitle |-> "", isOverride |-> TRUE, isGlobalOverride |-> TRUE,
                  note |-> IF Has(ov, "note") THEN ov.note ELSE "",
                  milestones |-> IF si = 0 THEN <<>>
                                 ELSE slotMilestones(sessions, sortedSessions[si].id, slot)]

\* Priority 2+3: session overrides and assignments
sessionCell(slot, staffId, sessions, sortedSessions, assignments, roles) ==
    LET slotMin == timeToMinutes(slot)
        si == sessionIndexAt(sortedSessions, slotMin)
    IN  IF si = 0 THEN EMPTY_CELL
        ELSE LET session == sortedSessions[si]
                 start == timeToMinutes(session.startTime)
                 end == timeToMinutes(session.endTime)
                 assignment == assignmentOf(assignments, session.id, staffId)
                 ms == slotMilestones(sessions, session.id, slot)
             IN  IF assignment = <<>>
                 THEN [sessionId |-> session.id, roleId |-> <<>>, roleName |-> "",
                       roleColor |-> "", roleTextColor |-> "",
                       sessionTitle |-> session.title, isOverride |-> FALSE,
                       isGlobalOverride |-> FALSE, note |-> "", milestones |-> ms]
                 ELSE LET overrides == OrElse(assignment, "overrides", <<>>)
                          Active(ov) ==
                            LET ovStart == start + (IF Has(ov, "startOffsetMinutes")
                                                    THEN ov.startOffsetMinutes ELSE 0)
                                ovEnd == start + (IF Has(ov, "endOffsetMinutes")
                                                  THEN ov.endOffsetMinutes ELSE end - start)
                            IN  slotMin >= ovStart /\ slotMin < ovEnd
                          hit == FindIndex(overrides, Active)
                      IN  IF hit # 0
                          THEN LET ov == overrides[hit]
                                   role == roleOf(roles, ov.roleId)
                               IN  [sessionId |-> session.id, roleId |-> ov.roleId,
                                    roleName |-> roleNameOf(role),
                                    roleColor |-> roleColorOf(role),
                                    roleTextColor |-> roleTextColorOf(role),
                                    sessionTitle |-> session.title, isOverride |-> TRUE,
                                    isGlobalOverride |-> FALSE,
                                    note |-> IF Has(ov, "note") THEN ov.note ELSE "",
                                    milestones |-> ms]
                          ELSE LET role == IF assignment.roleId # <<>>
                                           THEN roleOf(roles, assignment.roleId) ELSE <<>>
                               IN  [sessionId |-> session.id, roleId |-> assignment.roleId,
                                    roleName |-> roleNameOf(role),
                                    roleColor |-> roleColorOf(role),
                                    roleTextColor |-> roleTextColorOf(role),
                                    sessionTitle |-> session.title, isOverride |-> FALSE,
                                    isGlobalOverride |-> FALSE,
                                    note |-> IF Has(assignment, "note") THEN assignment.note ELSE "",
                                    milestones |-> ms]

\* the resolver with the session's cell taking precedence over a global
\* staff override
resolveCellSessionFirst(slot, staffId, sessions, sortedSessions, assignments, roles, staffOverrides) ==
    LET c == sessionCell(slot, staffId, sessions, sortedSessions, assignments, roles)
        g == globalOverrideCell(slot, staffId, sessions, sortedSessions, roles, staffOverrides)
    IN  IF c.sessionId # <<>> \/ g = <<>> THEN c ELSE g

resolveCell(slot, staffId, sessions, sortedSessions, assignments, roles, staffOverrides) ==
    LET g == globalOverrideCell(slot, staffId, sessions, sortedSessions, roles, staffOverrides)
    IN  IF g # <<>> THEN g
        ELSE sessionCell(slot, staffId, sessions, sortedSessions, assignments, roles)

\* gridData: one row per time slot, one cell per staff member
useGridData(timeSlots, staff, sessions, assignments, roles, staffOverrides) ==
    LET sortedSessions == sortedSessionsOf(sessions)
    IN  [r \in 1..Len(timeSlots) |->
            [c \in 1..Len(staff) |->
                resolveCell(timeSlots[r], staff[c].id, sessions, sortedSessions,
                            assignments, roles, staffOverrides)]]

\* sameGroup without the comparison of the notes
sameGroupNoNote(curr, prev) ==
    /\ curr.sessionId = prev.sessionId
    /\ curr.roleId = prev.roleId
    /\ curr.isOverride = prev.isOverride
    /\ curr.isGlobalOverride = prev.isGlobalOverride

sameGroup(curr, prev) ==
    /\ curr.sessionId = prev.sessionId
    /\ curr.roleId = prev.roleId
    /\ curr.isOverride = prev.isOverride
    /\ curr.isGlobalOverride = prev.isGlobalOverride
    /\ curr.note = prev.note

\* the loop over row = 1 .. timeSlots.length of one column; cells and result
\* are indexed from 1, row and spanStart count from 0 as in the source
RECURSIVE mergeColumn(_, _, _, _)
mergeColumn(cells, row, spanStart, result) ==
    LET n == Len(cells)
    IN  IF row > n THEN result
        ELSE LET same == row < n /\ sameGroup(cells[row + 1], cells[row])
             IN  IF ~same \/ row = n
                 THEN LET spanLength == row - spanStart
                          result1 ==
                            IF spanLength > 0
                            THEN [r \in 1..n |->
                                    IF r = spanStart + 1
                                    THEN [rowSpan |-> spanLength, info |-> cells[r],
                                          isFirst |-> TRUE]
                                    ELSE IF r > spanStart + 1 /\ r <= row
                                         THEN [rowSpan |-> 0, info |-> cells[r],
                                               isFirst |-> FALSE]
                                         ELSE result[r]]
                            ELSE result
                      IN  mergeColumn(cells, row + 1, row, result1)
                 ELSE mergeColumn(cells, row + 1, spanStart, result)

\* mergedGrid[row][col]
mergedGrid(gridData, nStaff) ==
    LET n == Len(gridData)
        Column(c) == [r \in 1..n |-> gridData[r][c]]
        Fresh == [r \in 1..n |-> [rowSpan |-> 1, info |-> EMPTY_CELL, isFirst |-> TRUE]]
        Merged(c) == mergeColumn(Column(c), 1, 0, Fresh)
    IN  [r \in 1..n |-> [c \in 1..nStaff |-> Merged(c)[r]]]

\* dayGridInputs handing every staff override of the document to the grid of
\* the day
dayGridInputsAllOverrides(d, dayId) ==
    LET InDay(s) == s.dayId = dayId
        daySessions == Filter(d.sessions, InDay)
        OfDay(a) == \E i \in 1..Len(daySessions) : daySessions[i].id = a.sessionId
    IN  [timeSlots |-> generateTimeSlots(d.gridStartTime, d.gridEndTime, 5),
         staff |-> d.staff,
         sessions |-> daySessions,
         assignments |-> Filter(d.assignments, OfDay),
         roles |-> d.roles,
         staffOverrides |-> d.staffOverrides]

\* SingleDayGrid: the inputs handed to useGridData for one day of a document
dayGridInputs(d, dayId) ==
    LET InDay(s) == s.dayId = dayId
        daySessions == Filter(d.sessions, InDay)
        OfDay(a) == \E i \in 1..Len(daySessions) : daySessions[i].id = a.sessionId
        SoDay(so) == so.dayId = dayId
    IN  [timeSlots |-> generateTimeSlots(d.gridStartTime, d.gridEndTime, 5),
         staff |-> d.staff,
         sessions |-> daySessions,
         assignments |-> Filter(d.assignments, OfDay),
         roles |-> d.roles,
         staffOverrides |-> Filter(d.staffOverrides, SoDay)]

dayGridData(d, dayId) ==
    LET in == dayGridInputs(d, dayId)
    IN  useGridData(in.timeSlots, in.staff, in.sessions, in.assignments, in.roles,
                    in.staffOverrides)

\* one cell of gridData of SingleDayGrid, from the inputs of the day
cellOfInputs(in, staffId, slot) ==
    resolveCell(slot, staffId, in.sessions, sortedSessionsOf(in.sessions),
                in.assignments, in.roles, in.staffOverrides)

\* the cell ShiftGrid shows for the staff member at the slot of the day
cellOf(d, dayId, staffId, slot) == cellOfInputs(dayGridInputs(d, dayId), staffId, slot)

(***************************************************************************)
(* Inputs of the store mutations                                           *)
(***************************************************************************)
\* the fixture of the CSV import format: a date row, the staff header and
\* four ticks
CanonicalFixture == <<
    <<Dt("2025-07-01", "2025-07-01")>>,
    <<Blank, Tx("Tanaka"), Tx("Suzuki")>>,
    <<Tm("09:00", <<9, 0>>),  Tx("happyo"), Tx("support")>>,
    <<Tm("09:05", <<9, 5>>),  Tx("happyo"), Tx("support")>>,
    <<Tm("09:10", <<9, 10>>), Blank,        Tx("support")>>,
    <<Tm("09:15", <<9, 15>>), Blank,        Blank>> >>

\* a project file as exported by an earlier release: no dayStartTime, no
\* durationMinutes, an override with absolute times
ProjectFile == [
    staff |-> <<[id |-> <<"staff", 1>>, name |-> "Tanaka"]>>,
    roles |-> DEFAULT_ROLES,
    sessions |-> <<
        [id |-> <<"session", 1>>, dayId |-> 1, title |-> "kaikaishiki",
         startTime |-> <<9, 0>>, endTime |-> <<9, 30>>],
        [id |-> <<"session", 2>>, dayId |-> 1, title |-> "sessionA",
         startTime |-> <<10, 0>>, endTime |-> <<9, 30>>] >>,
    assignments |-> <<
        [sessionId |-> <<"session", 1>>, staffId |-> <<"staff", 1>>,
         roleId |-> <<"role", 1>>,
         overrides |-> <<[id |-> <<"ov", 1>>, roleId |-> <<"role", 2>>,
                          startTime |-> <<9, 10>>, endTime |-> <<9, 20>>]>>] >>,
    days |-> <<[id |-> 1, label |-> <<"Day", 1>>]>>,
    gridStartTime |-> <<8, 0>>,
    gridEndTime |-> <<12, 0>> ]

StaffArgs == {<<"staff", 1>>, <<"staff", 2>>}
RoleArgs == {<<"role", 1>>, <<"role", 2>>}
DayArgs == {1, 2}
SessionArgs == {<<"session", 1>>, <<"session", 2>>, <<"session", 5>>, <<"id", 1>>}
AssignSessionArgs == {<<"session", 1>>, <<"id", 1>>}
GeneratedArgs == {<<"id", 1>>, <<"id", 2>>}
DurationArgs == {0 - 725, 0 - 185, 0, 45}
SessionUpdateArgs == {
    [durationMinutes |-> 45],
    [title |-> "edited", durationMinutes |-> 5],
    [startTime |-> <<7, 0>>, endTime |-> <<7, 30>>] }
DayUpdateArgs == {
    [dayStartTime |-> <<10, 0>>], [dayStartTime |-> <<0, 0>>], [dayStartTime |-> <<>>] }
OverrideArgs == {
    [startOffsetMinutes |-> 0, endOffsetMinutes |-> 10, roleId |-> <<"role", 2>>, note |-> ""],
    [startOffsetMinutes |-> 5, endOffsetMinutes |-> 40, roleId |-> <<"role", 3>>, note |-> "memo"] }
OverrideUpdateArgs == { [endOffsetMinutes |-> 20] }
MilestoneArgs == {
    [offsetMinutes |-> 7, label |-> "haifu"],
    [offsetMinutes |-> 40, label |-> ""] }
MilestoneUpdateArgs == { [offsetMinutes |-> 12] }
StaffOverrideArgs == {
    [staffId |-> <<"staff", 1>>, dayId |-> 1, startTime |-> <<9, 0>>, endTime |-> <<10, 0>>,
     roleId |-> <<"role", 4>>, note |-> "uketsuke"],
    [staffId |-> <<"staff", 1>>, dayId |-> 1, startTime |-> <<9, 30>>, endTime |-> <<11, 0>>,
     roleId |-> <<"role", 5>>, note |-> ""],
    [staffId |-> <<"staff", 2>>, dayId |-> 2, startTime |-> <<8, 0>>, endTime |-> <<8, 30>>,
     roleId |-> <<"role", 4>>, note |-> ""] }
StaffOverrideUpdateArgs == { [startTime |-> <<9, 15>>, roleId |-> <<"role", 6>>] }

(***************************************************************************)
(* Store: the mutations as actions.  Every mutation goes through          *)
(* updateData, which runs the updater and then, unless skipRecompute is    *)
(* passed, recomputeSessionTimes.                                          *)
(***************************************************************************)
Idle == [phase |-> "idle"]

\* useState(DEFAULT_SHIFT_DATA): the store before any mutation
StoreInit ==
    /\ data = DEFAULT_SHIFT_DATA
    /\ prevData = DEFAULT_SHIFT_DATA
    /\ last = [op |-> "init", args |-> <<>>]
    /\ steps = 0
    /\ nextId = 0

Init ==
    /\ StoreInit
    /\ io = Idle
    /\ chain = Idle
    /\ gridv = Idle
    /\ csv = Idle

\* setData(prev => updateData's body); ids is the number of generateId() calls;
\* last.recomputed tells whether updateData took the recomputeSessionTimes branch
Mutation(op, args, raw, skipRecompute, ids) ==
    /\ data' = updateData(raw, skipRecompute)
    /\ prevData' = data
    /\ last' = [op |-> op, args |-> args, recomputed |-> ~skipRecompute]
    /\ steps' = steps + 1
    /\ nextId' = nextId + ids
    /\ UNCHANGED <<chain, gridv, csv, io>>

AddStaff ==
    /\ steps < MaxSteps
    /\ Mutation("addStaff", <<>>, addStaff(data, generateId("id", nextId + 1), "Yamada"), FALSE, 1)

UpdateStaff ==
    /\ steps < MaxSteps
    /\ \E id \in {<<"staff", 1>>} :
           Mutation("updateStaff", [id |-> id], updateStaff(data, id, "Tanaka2"), FALSE, 0)

RemoveStaff ==
    /\ steps < MaxSteps
    /\ \E id \in StaffArgs :
           Mutation("removeStaff", [id |-> id], removeStaff(data, id), FALSE, 0)

AddRole ==
    /\ steps < MaxSteps
    /\ Mutation("addRole", <<>>,
                addRole(data, generateId("id", nextId + 1), "uketsuke", "#000000", "#ffffff"),
                FALSE, 1)

UpdateRole ==
    /\ steps < MaxSteps
    /\ \E id \in {<<"role", 1>>} :
           Mutation("updateRole", [id |-> id],
                    updateRole(data, id, [name |-> "happyo2"]), FALSE, 0)

RemoveRole ==
    /\ steps < MaxSteps
    /\ \E id \in RoleArgs :
           Mutation("removeRole", [id |-> id], removeRole(data, id), FALSE, 0)

UpdateDay ==
    /\ steps < MaxSteps
    /\ \E dayId \in DayArgs, updates \in DayUpdateArgs :
           Mutation("updateDay", [dayId |-> dayId, updates |-> updates],
                    updateDay(data, dayId, updates), FALSE, 0)

AddSession ==
    /\ steps < MaxSteps
    /\ \E dayId \in DayArgs, durationMinutes \in DurationArgs :
           Mutation("addSession",
                    [id |-> generateId("id", nextId + 1), dayId |-> dayId,
                     durationMinutes |-> durationMinutes],
                    addSession(data, generateId("id", nextId + 1), dayId, "new", durationMinutes),
                    FALSE, 1)

ReorderSession ==
    /\ steps < MaxSteps
    /\ \E sessionId \in SessionArgs, direction \in {"up", "down"} :
           Mutation("reorderSession", [sessionId |-> sessionId, direction |-> direction],
                    reorderSession(data, sessionId, direction), FALSE, 0)

UpdateSession ==
    /\ steps < MaxSteps
    /\ \E id \in SessionArgs, updates \in SessionUpdateArgs :
           Mutation("updateSession", [id |-> id, updates |-> updates],
                    updateSession(data, id, updates), FALSE, 0)

RemoveSession ==
    /\ steps < MaxSteps
    /\ \E id \in SessionArgs :
           Mutation("removeSession", [id |-> id], removeSession(data, id), FALSE, 0)

SetAssignment ==
    /\ steps < MaxSteps
    /\ \E sessionId \in AssignSessionArgs, staffId \in StaffArgs, roleId \in RoleArgs \cup {<<>>} :
           Mutation("setAssignment",
                    [sessionId |-> sessionId, staffId |-> staffId, roleId |-> roleId],
                    setAssignment(data, sessionId, staffId, roleId), FALSE, 0)

SetAssignmentNote ==
    /\ steps < MaxSteps
    /\ \E sessionId \in {<<"session", 1>>}, staffId \in StaffArgs :
           Mutation("setAssignmentNote", [sessionId |-> sessionId, staffId |-> staffId],
                    setAssignmentNote(data, sessionId, staffId, "memo"), FALSE, 0)

AddOverride ==
    /\ steps < MaxSteps
    /\ \E sessionId \in {<<"session", 1>>}, staffId \in StaffArgs, override \in OverrideArgs :
           Mutation("addOverride",
                    [sessionId |-> sessionId, staffId |-> staffId, override |-> override],
                    addOverride(data, sessionId, staffId, override, generateId("id", nextId + 1)),
                    TRUE, 1)

UpdateOverride ==
    /\ steps < MaxSteps
    /\ \E sessionId \in {<<"session", 1>>}, staffId \in StaffArgs,
          overrideId \in GeneratedArgs, updates \in OverrideUpdateArgs :
           Mutation("updateOverride",
                    [sessionId |-> sessionId, staffId |-> staffId, overrideId |-> overrideId],
                    updateOverride(data, sessionId, staffId, overrideId, updates), FALSE, 0)

RemoveOverride ==
    /\ steps < MaxSteps
    /\ \E sessionId \in {<<"session", 1>>}, staffId \in StaffArgs, overrideId \in GeneratedArgs :
           Mutation("removeOverride",
                    [sessionId |-> sessionId, staffId |-> staffId, overrideId |-> overrideId],
                    removeOverride(data, sessionId, staffId, overrideId), FALSE, 0)

AddMilestone ==
    /\ steps < MaxSteps
    /\ \E sessionId \in {<<"session", 1>>}, milestone \in MilestoneArgs :
           Mutation("addMilestone", [sessionId |-> sessionId, milestone |-> milestone],
                    addMilestone(data, sessionId, milestone, generateId("id", nextId + 1)),
                    FALSE, 1)

UpdateMilestone ==
    /\ steps < MaxSteps
    /\ \E sessionId \in {<<"session", 1>>}, milestoneId \in GeneratedArgs,
          updates \in MilestoneUpdateArgs :
           Mutation("updateMilestone", [sessionId |-> sessionId, milestoneId |-> milestoneId],
                    updateMilestone(data, sessionId, milestoneId, updates), FALSE, 0)

RemoveMilestone ==
    /\ steps < MaxSteps
    /\ \E sessionId \in {<<"session", 1>>}, milestoneId \in GeneratedArgs :
           Mutation("removeMilestone", [sessionId |-> sessionId, milestoneId |-> milestoneId],
                    removeMilestone(data, sessionId, milestoneId), FALSE, 0)

AddStaffOverride ==
    /\ steps < MaxSteps
    /\ \E override \in StaffOverrideArgs :
           Mutation("addStaffOverride", [override |-> override],
                    addStaffOverride(data, override, generateId("id", nextId + 1)), TRUE, 1)

UpdateStaffOverride ==
    /\ steps < MaxSteps
    /\ \E id \in GeneratedArgs, updates \in StaffOverrideUpdateArgs :
           Mutation("updateStaffOverride", [id |-> id],
                    updateStaffOverride(data, id, updates), TRUE, 0)

RemoveStaffOverride ==
    /\ steps < MaxSteps
    /\ \E id \in GeneratedArgs :
           Mutation("removeStaffOverride", [id |-> id], removeStaffOverride(data, id), TRUE, 0)

SetGridTimes ==
    /\ steps < MaxSteps
    /\ Mutation("setGridTimes", <<>>, setGridTimes(data, <<9, 0>>, <<12, 0>>), FALSE, 0)

\* CsvImporter.handleImport: the parse of the fixture with the current roles
ImportData ==
    /\ steps < MaxSteps
    /\ LET parsed == parseCSV(CanonicalFixture, data.roles)
       IN  Mutation("importData", <<>>,
                    importData(data, [staff |-> parsed.staff, sessions |-> parsed.sessions,
                                      roles |-> parsed.roles,
                                      assignments |-> parsed.assignments,
                                      days |-> parsed.days]),
                    FALSE, 0)

ReplaceData ==
    /\ steps < MaxSteps
    /\ Mutation("replaceData", <<>>, replaceData(data, ProjectFile), FALSE, 0)

ResetData ==
    /\ steps < MaxSteps
    /\ Mutation("resetData", <<>>, resetData(data), FALSE, 0)

Next ==
    \/ AddStaff \/ UpdateStaff \/ RemoveStaff
    \/ AddRole \/ UpdateRole \/ RemoveRole
    \/ UpdateDay
    \/ AddSession \/ ReorderSession \/ UpdateSession \/ RemoveSession
    \/ SetAssignment \/ SetAssignmentNote
    \/ AddOverride \/ UpdateOverride \/ RemoveOverride
    \/ AddMilestone \/ UpdateMilestone \/ RemoveMilestone
    \/ AddStaffOverride \/ UpdateStaffOverride \/ RemoveStaffOverride
    \/ SetGridTimes \/ ImportData \/ ReplaceData \/ ResetData

Spec == Init /\ [][Next]_vars

(***************************************************************************)
(* Properties of the store (specification Spec)                            *)
(***************************************************************************)
\* the sessions of day dayId, in master-list order
daySessionsOf(sessions, dayId) ==
    LET InDay(s) == s.dayId = dayId
    IN  Filter(sessions, InDay)

dayIdsOf(sessions) == {sessions[i].dayId : i \in 1..Len(sessions)}

idsOf(s) == [i \in 1..Len(s) |-> s[i].id]

\* C1: in every reachable store state, the sessions of each day, in
\* master-list order, are contiguous (each starts at the end time of the one
\* before it) and every session ends durationMinutes after it starts.
C1_ChainInvariant ==
    /\ \A dayId \in dayIdsOf(data.sessions) :
          LET chainOfDay == daySessionsOf(data.sessions, dayId)
          IN  \A i \in 2..Len(chainOfDay) :
                  chainOfDay[i].startTime = chainOfDay[i - 1].endTime
    /\ \A i \in 1..Len(data.sessions) :
          LET session == data.sessions[i]
          IN  timeToMinutes(session.endTime)
                  = timeToMinutes(session.startTime) + session.durationMinutes

\* the case of C8: the last mutation was updateSession(id, {durationMinutes:
\* d'}) with d' > 0 on an existing session whose duration d was positive
C8_Case ==
    /\ last.op = "updateSession"
    /\ Has(last.args.updates, "durationMinutes")
    /\ last.args.updates.durationMinutes > 0
    /\ \E i \in 1..Len(prevData.sessions) :
          /\ prevData.sessions[i].id = last.args.id
          /\ prevData.sessions[i].durationMinutes > 0

\* C8: changing one session's duration from d to d' (both positive) keeps its
\* start, moves its end by d' - d, shifts every later session of the day by
\* d' - d and leaves earlier sessions and other days as they were.
C8_DurationChangePropagates ==
    C8_Case =>
        LET IsIt(s) == s.id = last.args.id
            k     == FindIndex(prevData.sessions, IsIt)
            old   == prevData.sessions[k]
            delta == last.args.updates.durationMinutes - old.durationMinutes
        IN  /\ Len(data.sessions) = Len(prevData.sessions)
            /\ \A i \in 1..Len(prevData.sessions) :
                  LET before == prevData.sessions[i]
                      after  == data.sessions[i]
                  IN  IF i = k
                      THEN /\ after.startTime = before.startTime
                           /\ timeToMinutes(after.endTime)
                                  = timeToMinutes(before.endTime) + delta
                      ELSE IF before.dayId = old.dayId /\ i > k
                      THEN /\ timeToMinutes(after.startTime)
                                  = timeToMinutes(before.startTime) + delta
                           /\ timeToMinutes(after.endTime)
                                  = timeToMinutes(before.endTime) + delta
                           /\ after.id = before.id
                           /\ after.durationMinutes = before.durationMinutes
                      ELSE after = before

\* the case of C9: the last mutation was reorderSession on a session that
\* had a neighbour in the requested direction within its day
C9_Case ==
    /\ last.op = "reorderSession"
    /\ \E i \in 1..Len(prevData.sessions) :
          /\ prevData.sessions[i].id = last.args.sessionId
          /\ LET order == idsOf(daySessionsOf(prevData.sessions, prevData.sessions[i].dayId))
                 InOrder(x) == x = last.args.sessionId
                 pos == FindIndex(order, InOrder)
             IN  IF last.args.direction = "up" THEN pos > 1 ELSE pos < Len(order)

\* C9: reorderSession exchanges exactly the session and its neighbour in the
\* day's order; the earlier of the two then starts where the earlier one
\* started before, the later starts at the new earlier one's end, both keep
\* their durations, and every other session keeps its place in its day and
\* its times.
C9_ReorderSwapsNeighbours ==
    C9_Case =>
        LET IsIt(s) == s.id = last.args.sessionId
            k       == FindIndex(prevData.sessions, IsIt)
            dayId   == prevData.sessions[k].dayId
            before  == daySessionsOf(prevData.sessions, dayId)
            after   == daySessionsOf(data.sessions, dayId)
            InOrder(s) == s.id = last.args.sessionId
            pos     == FindIndex(before, InOrder)
            nbr     == IF last.args.direction = "up" THEN pos - 1 ELSE pos + 1
            lo      == IF pos < nbr THEN pos ELSE nbr
            hi      == IF pos < nbr THEN nbr ELSE pos
        IN  /\ Len(after) = Len(before)
            /\ after[lo].id = before[hi].id
            /\ after[hi].id = before[lo].id
            /\ after[lo].startTime = before[lo].startTime
            /\ after[hi].startTime = after[lo].endTime
            /\ after[lo].durationMinutes = before[hi].durationMinutes
            /\ after[hi].durationMinutes = before[lo].durationMinutes
            /\ \A i \in 1..Len(before) :
                  (i # lo /\ i # hi) =>
                      /\ after[i].id = before[i].id
                      /\ after[i].startTime = before[i].startTime
                      /\ after[i].endTime = before[i].endTime
            /\ \A d \in dayIdsOf(prevData.sessions) \cup dayIdsOf(data.sessions) :
                  d # dayId =>
                      daySessionsOf(data.sessions, d) = daySessionsOf(prevData.sessions, d)

\* a reorder that found a neighbour and moved the session
C9_Witness ==
    /\ C9_Case
    /\ data.sessions # prevData.sessions
    /\ \E i \in 1..Len(data.sessions) : data.sessions[i].durationMinutes < 0

\* the days of the document that own at least one session, as indices of
\* data.days
owningDays == {i \in 1..Len(data.days) :
                  Len(daySessionsOf(data.sessions, data.days[i].id)) > 0}

\* C11 as stated: in every reachable store state the first session of each
\* day that owns a session starts at that day's stored dayStartTime.
C11_FirstSessionAtDayStart ==
    \A i \in owningDays :
        /\ Has(data.days[i], "dayStartTime")
        /\ daySessionsOf(data.sessions, data.days[i].id)[1].startTime
               = data.days[i].dayStartTime

\* C11 amended: the first session of each day that owns a session starts at
\* the day's dayStartTime, or at 09:00 when the day's dayStartTime is unset
\* or the empty string.
C11_FirstSessionAtEffectiveDayStart ==
    \A i \in owningDays :
        LET day   == data.days[i]
            first == daySessionsOf(data.sessions, day.id)[1]
        IN  IF Has(day, "dayStartTime") /\ day.dayStartTime # <<>>
            THEN first.startTime = day.dayStartTime
            ELSE first.startTime = <<9, 0>>

\* updateDay has just moved the start of a day that owns sessions to 10:00
C11_Witness ==
    /\ last.op = "updateDay"
    /\ last.args.updates = [dayStartTime |-> <<10, 0>>]
    /\ \E i \in owningDays :
          /\ data.days[i].id = last.args.dayId
          /\ data.days[i].dayStartTime = <<10, 0>>
          /\ daySessionsOf(prevData.sessions, data.days[i].id)[1].startTime = <<9, 0>>

\* C19: in every reachable store state every session ends strictly later
\* than it starts, and no session of a day starts before the one before it
\* in the day's order (durations of zero or less count as at least one
\* minute).
C19_DurationsFloored ==
    /\ \A i \in 1..Len(data.sessions) :
          timeToMinutes(data.sessions[i].endTime)
              > timeToMinutes(data.sessions[i].startTime)
    /\ \A dayId \in dayIdsOf(data.sessions) :
          LET chainOfDay == daySessionsOf(data.sessions, dayId)
          IN  \A i \in 2..Len(chainOfDay) :
                  timeToMinutes(chainOfDay[i].startTime)
                      >= timeToMinutes(chainOfDay[i - 1].startTime)

\* the sessions with their cached times overwritten by the placeholder
timesWiped(sessions) ==
    [i \in 1..Len(sessions) |->
        spread(sessions[i], [startTime |-> <<0, 0>>, endTime |-> <<0, 0>>])]

\* the case of C20: the last mutation was updateSession on a session of the
\* document with updates that name startTime or endTime and no duration
C20_Case ==
    /\ last.op = "updateSession"
    /\ ~Has(last.args.updates, "durationMinutes")
    /\ Has(last.args.updates, "startTime") \/ Has(last.args.updates, "endTime")
    /\ \E i \in 1..Len(prevData.sessions) : prevData.sessions[i].id = last.args.id

\* C20: in every reachable store state the sessions' times are what the
\* chain calculator derives from the day starts, the order and the
\* durations alone, whatever times were stored; updateSession with startTime
\* or endTime and no duration leaves every session's times as they were; no
\* session keeps addSession's placeholder times, and an added session
\* starts where its day's chain puts it.
C20_TimesAreDerived ==
    /\ data.sessions = recomputeSessionTimes(timesWiped(data.sessions), data.days)
    /\ C20_Case =>
          /\ Len(data.sessions) = Len(prevData.sessions)
          /\ \A i \in 1..Len(data.sessions) :
                /\ data.sessions[i].startTime = prevData.sessions[i].startTime
                /\ data.sessions[i].endTime = prevData.sessions[i].endTime
    /\ \A i \in 1..Len(data.sessions) :
          ~(data.sessions[i].startTime = <<0, 0>> /\ data.sessions[i].endTime = <<0, 0>>)
    /\ last.op = "addSession" =>
          LET chainOfDay == daySessionsOf(data.sessions, last.args.dayId)
              n == Len(chainOfDay)
          IN  /\ n >= 1
              /\ chainOfDay[n].id = last.args.id
              /\ n >= 2 => chainOfDay[n].startTime = chainOfDay[n - 1].endTime
              /\ chainOfDay[n].endTime # chainOfDay[n].startTime

\* updateSession was given the times 07:00-07:30 for a session of the
\* document, and the session is still where the chain puts it
C20_Witness ==
    /\ C20_Case
    /\ last.args.updates.startTime = <<7, 0>>
    /\ \E i \in 1..Len(data.sessions) :
          /\ data.sessions[i].id = last.args.id
          /\ data.sessions[i].startTime # <<7, 0>>

(***************************************************************************)
(* The store opened on a document that already holds assignments, a       *)
(* session-level override and staff overrides (specification SpecSeeded)   *)
(***************************************************************************)
\* a document saveData wrote in an earlier visit: the default document
\* after setAssignment three times, addOverride once and addStaffOverride
\* twice, with the ids generateId() gave at the time
SeedDoc ==
    LET d1 == setAssignment(DEFAULT_SHIFT_DATA, <<"session", 1>>, <<"staff", 1>>, <<"role", 1>>)
        d2 == setAssignment(d1, <<"session", 1>>, <<"staff", 2>>, <<"role", 2>>)
        d3 == setAssignment(d2, <<"session", 2>>, <<"staff", 1>>, <<"role", 2>>)
        d4 == addOverride(d3, <<"session", 1>>, <<"staff", 1>>,
                  [startOffsetMinutes |-> 5, endOffsetMinutes |-> 10,
                   roleId |-> <<"role", 2>>, note |-> ""],
                  generateId("id", 11))
        d5 == addStaffOverride(d4,
                  [staffId |-> <<"staff", 1>>, dayId |-> 1, startTime |-> <<9, 0>>,
                   endTime |-> <<9, 20>>, roleId |-> <<"role", 4>>, note |-> "uketsuke"],
                  generateId("id", 12))
    IN  addStaffOverride(d5,
            [staffId |-> <<"staff", 2>>, dayId |-> 2, startTime |-> <<9, 0>>,
             endTime |-> <<9, 30>>, roleId |-> <<"role", 2>>, note |-> ""],
            generateId("id", 13))

\* the stored document after the mount effect, setData(loadData())
SeedLoaded == migrateData(SeedDoc)

\* the store later in that visit: a session of -725 minutes was added to
\* day 1 and moved up one place
SeedReordered ==
    updateData(
        reorderSession(
            updateData(addSession(SeedLoaded, generateId("id", 1), 1, "new", 0 - 725), FALSE),
            generateId("id", 1), "up"),
        FALSE)

SeedStates == { [data |-> SeedLoaded, nextId |-> 0],
                [data |-> SeedReordered, nextId |-> 1] }

InitSeeded ==
    /\ \E s \in SeedStates :
          /\ data = s.data
          /\ prevData = s.data
          /\ nextId = s.nextId
    /\ last = [op |-> "init", args |-> <<>>]
    /\ steps = 0
    /\ chain = Idle
    /\ gridv = Idle
    /\ csv = Idle
    /\ io = Idle

SpecSeeded == InitSeeded /\ [][Next]_vars

\* the fields of the document other than the ones named in touched
restUnchanged(touched) ==
    /\ DOMAIN data = DOMAIN prevData
    /\ \A k \in (DOMAIN prevData) \ touched : data[k] = prevData[k]

\* C12: removeRole(id) removes the role and every Assignment whose roleId is
\* id, so that afterwards no Assignment has that roleId; the other roles and
\* assignments stay as they were, in order, and staff, sessions, days and
\* the rest of the document are unchanged.
C12_RemoveRoleCascades ==
    last.op = "removeRole" =>
        LET id == last.args.id
            OtherRole(r) == r.id # id
            OtherAssignment(a) == a.roleId # id
        IN  /\ \A i \in 1..Len(data.roles) : data.roles[i].id # id
            /\ \A i \in 1..Len(data.assignments) : data.assignments[i].roleId # id
            /\ data.roles = Filter(prevData.roles, OtherRole)
            /\ data.assignments = Filter(prevData.assignments, OtherAssignment)
            /\ restUnchanged({"roles", "assignments"})

\* a role was removed that some assignments had and others did not
C12_Witness ==
    /\ last.op = "removeRole"
    /\ Len(data.roles) < Len(prevData.roles)
    /\ Len(data.assignments) < Len(prevData.assignments)
    /\ Len(data.assignments) > 0

\* C13: removeStaff(id) removes the staff member, every Assignment and every
\* StaffOverride with staffId = id, so that afterwards none references the
\* removed staff member; the staff, assignments and staff overrides of other
\* staff stay as they were, in order, and the rest of the document is
\* unchanged.
C13_RemoveStaffCascades ==
    last.op = "removeStaff" =>
        LET id == last.args.id
            OtherStaff(s) == s.id # id
            OfOther(x) == x.staffId # id
        IN  /\ \A i \in 1..Len(data.staff) : data.staff[i].id # id
            /\ \A i \in 1..Len(data.assignments) : data.assignments[i].staffId # id
            /\ \A i \in 1..Len(data.staffOverrides) : data.staffOverrides[i].staffId # id
            /\ data.staff = Filter(prevData.staff, OtherStaff)
            /\ data.assignments = Filter(prevData.assignments, OfOther)
            /\ data.staffOverrides = Filter(prevData.staffOverrides, OfOther)
            /\ restUnchanged({"staff", "assignments", "staffOverrides"})

\* a staff member was removed who had assignments and a staff override,
\* while another staff member's assignment and staff override remain
C13_Witness ==
    /\ last.op = "removeStaff"
    /\ Len(data.staff) < Len(prevData.staff)
    /\ Len(data.assignments) < Len(prevData.assignments)
    /\ Len(data.staffOverrides) < Len(prevData.staffOverrides)
    /\ Len(data.assignments) > 0
    /\ Len(data.staffOverrides) > 0

\* the case of C14: the last mutation was removeSession on a session of the
\* document
C14_Case ==
    /\ last.op = "removeSession"
    /\ \E i \in 1..Len(prevData.sessions) : prevData.sessions[i].id = last.args.id

\* C14: removeSession(id) removes the session and every Assignment with
\* sessionId = id (with the overrides it owns), leaves the assignments of
\* other sessions as they were, and re-chains the day: the sessions that
\* followed the removed one start earlier by exactly its duration, the ones
\* before it and the other days keep their times.
C14_RemoveSessionCascades ==
    C14_Case =>
        LET id == last.args.id
            IsIt(s) == s.id = id
            k == FindIndex(prevData.sessions, IsIt)
            removed == prevData.sessions[k]
            OtherSession(s) == s.id # id
            OfOther(a) == a.sessionId # id
            kept == Filter(prevData.sessions, OtherSession)
        IN  /\ \A i \in 1..Len(data.sessions) : data.sessions[i].id # id
            /\ \A i \in 1..Len(data.assignments) : data.assignments[i].sessionId # id
            /\ data.assignments = Filter(prevData.assignments, OfOther)
            /\ idsOf(data.sessions) = idsOf(kept)
            /\ \A i \in 1..Len(kept) :
                  IF kept[i].dayId = removed.dayId /\ i >= k
                  THEN timeToMinutes(data.sessions[i].startTime)
                          = timeToMinutes(kept[i].startTime) - removed.durationMinutes
                  ELSE data.sessions[i] = kept[i]
            /\ restUnchanged({"sessions", "assignments"})

\* the indices of the assignments of the pair (sessionId, staffId) in doc
pairIndices(doc, sessionId, staffId) ==
    {i \in 1..Len(doc.assignments) :
        /\ doc.assignments[i].sessionId = sessionId
        /\ doc.assignments[i].staffId = staffId}

\* C15: every reachable store state has at most one Assignment per
\* (sessionId, staffId) pair; setAssignment with a non-empty roleId on an
\* assigned pair changes the roleId of the existing record and nothing else,
\* on an unassigned pair it adds one record, and setAssignment with an empty
\* roleId leaves no Assignment for the pair.
C15_OneAssignmentPerPair ==
    /\ \A i, j \in 1..Len(data.assignments) :
          (/\ data.assignments[i].sessionId = data.assignments[j].sessionId
           /\ data.assignments[i].staffId = data.assignments[j].staffId) => i = j
    /\ last.op = "setAssignment" =>
          LET before == pairIndices(prevData, last.args.sessionId, last.args.staffId)
              after  == pairIndices(data, last.args.sessionId, last.args.staffId)
          IN  IF last.args.roleId = <<>> THEN after = {}
              ELSE IF before # {}
              THEN /\ after = before
                   /\ Len(data.assignments) = Len(prevData.assignments)
                   /\ \A i \in before :
                         data.assignments[i]
                             = spread(prevData.assignments[i], [roleId |-> last.args.roleId])
              ELSE /\ Cardinality(after) = 1
                   /\ Len(data.assignments) = Len(prevData.assignments) + 1
                   /\ \A i \in after : data.assignments[i].roleId = last.args.roleId

\* setAssignment gave a new role to a pair that already had an Assignment
\* owning an override
C15_Witness ==
    /\ last.op = "setAssignment"
    /\ last.args.roleId # <<>>
    /\ \E i \in pairIndices(prevData, last.args.sessionId, last.args.staffId) :
          /\ prevData.assignments[i].roleId # last.args.roleId
          /\ Len(prevData.assignments[i].overrides) > 0
          /\ data.assignments[i].roleId = last.args.roleId
          /\ data.assignments[i].overrides = prevData.assignments[i].overrides

\* what the chain calculator owns of the sessions: their order and, of each,
\* the duration and the cached times
timingOf(sessions) ==
    [i \in 1..Len(sessions) |->
        [id |-> sessions[i].id,
         durationMinutes |-> IF Has(sessions[i], "durationMinutes")
                            THEN sessions[i].durationMinutes ELSE 0,
         startTime |-> OrElse(sessions[i], "startTime", <<>>),
         endTime |-> OrElse(sessions[i], "endTime", <<>>)]]

OverrideOps == {"addOverride", "updateOverride", "removeOverride"}
MilestoneOps == {"addMilestone", "updateMilestone", "removeMilestone"}
StaffOverrideOps == {"addStaffOverride", "updateStaffOverride", "removeStaffOverride"}
AssignmentOps == {"setAssignment", "setAssignmentNote"}

\* C21: an override mutation, a milestone mutation, a staff-override mutation,
\* setAssignment and setAssignmentNote leave the order of the sessions and the
\* durationMinutes, startTime and endTime of every session as they were,
\* whether or not the mutation went through recomputeSessionTimes.
C21_TimingUntouched ==
    last.op \in OverrideOps \cup MilestoneOps \cup StaffOverrideOps \cup AssignmentOps
        => timingOf(data.sessions) = timingOf(prevData.sessions)

\* C21 witness: an override was removed from an assignment by a mutation that
\* ran recomputeSessionTimes, in a document holding a session whose times the
\* calculator had to move earlier (an added or reordered session).
C21_Witness ==
    /\ last.op = "removeOverride"
    /\ last.recomputed
    /\ data.assignments # prevData.assignments
    /\ Len(data.sessions) > Len(DEFAULT_SHIFT_DATA.sessions)

StructuralOps == {"addSession", "updateSession", "removeSession", "reorderSession"}

\* C22: recomputeSessionTimes is run by every structural mutation (addSession,
\* updateSession, removeSession, reorderSession, updateDay that sets
\* dayStartTime) and is not run by the override mutations nor by the milestone
\* mutations addressed to an existing session.
C22_RecomputeOnlyWhenStructural ==
    /\ last.op \in StructuralOps => last.recomputed
    /\ (last.op = "updateDay" /\ Has(last.args.updates, "dayStartTime")) => last.recomputed
    /\ (/\ last.op \in OverrideOps \cup MilestoneOps
        /\ \E i \in 1..Len(prevData.sessions) : prevData.sessions[i].id = last.args.sessionId)
          => ~last.recomputed

(***************************************************************************)
(* Staff-override dialog driving the store, and the grid of the resulting  *)
(* document (specification SpecOverlay;                                    *)
(* src/components/staff-override-dialog.tsx)                               *)
(*                                                                         *)
(* The store is opened on the stored documents of SpecSeeded with the grid *)
(* window set to 08:00-10:00; the dialog's three handlers are the          *)
(* mutations.                                                              *)
(***************************************************************************)
\* the form of the dialog when the add button is pressed
DialogForms == {
    [staffId |-> <<"staff", 1>>, dayId |-> 1, startTime |-> <<9, 10>>, endTime |-> <<9, 40>>,
     roleId |-> <<"role", 5>>, note |-> ""],
    [staffId |-> <<"staff", 1>>, dayId |-> 1, startTime |-> <<8, 30>>, endTime |-> <<9, 10>>,
     roleId |-> <<"role", 6>>, note |-> "memo"],
    [staffId |-> <<"staff", 2>>, dayId |-> 1, startTime |-> <<9, 0>>, endTime |-> <<9, 30>>,
     roleId |-> <<"role", 4>>, note |-> ""],
    [staffId |-> <<"staff", 1>>, dayId |-> 2, startTime |-> <<9, 0>>, endTime |-> <<10, 0>>,
     roleId |-> <<"role", 5>>, note |-> ""],
    [staffId |-> <<"staff", 2>>, dayId |-> 1, startTime |-> <<9, 30>>, endTime |-> <<9, 30>>,
     roleId |-> <<"role", 4>>, note |-> ""],
    [staffId |-> <<"staff", 2>>, dayId |-> 1, startTime |-> <<9, 0>>, endTime |-> <<9, 30>>,
     roleId |-> <<>>, note |-> ""] }

\* what the selectors of the edit row changed before save was pressed
DialogEdits == {
    [staffId |-> <<"staff", 2>>],
    [startTime |-> <<9, 15>>, roleId |-> <<"role", 6>>],
    [note |-> "x"],
    [endTime |-> <<8, 0>>] }

\* the store with the stored document and the grid window 08:00-10:00
InitOverlay ==
    /\ \E s \in SeedStates :
          /\ data = updateData(setGridTimes(s.data, <<8, 0>>, <<10, 0>>), FALSE)
          /\ prevData = data
          /\ nextId = s.nextId
    /\ last = [op |-> "init", args |-> <<>>]
    /\ steps = 0
    /\ io = Idle
    /\ chain = Idle
    /\ gridv = Idle
    /\ csv = Idle

\* handleAdd: returns early on a missing staff member or role and on an
\* empty or reversed interval, else onAdd(form)
DialogHandleAdd ==
    /\ steps < MaxSteps
    /\ \E form \in DialogForms :
          /\ form.staffId # <<>>
          /\ form.roleId # <<>>
          /\ timeToMinutes(form.startTime) < timeToMinutes(form.endTime)
          /\ Mutation("addStaffOverride", [override |-> form],
                      addStaffOverride(data, form, generateId("id", nextId + 1)), TRUE, 1)

\* handleStartEdit: the editing state of a stored override
editingOf(so) ==
    [id |-> so.id, staffId |-> so.staffId, dayId |-> so.dayId,
     startTime |-> so.startTime, endTime |-> so.endTime,
     roleId |-> so.roleId, note |-> so.note]

\* onUpdate(editing.id, { the six fields of editing })
saveEdit(editing) ==
    /\ timeToMinutes(editing.startTime) < timeToMinutes(editing.endTime)
    /\ Mutation("updateStaffOverride",
                [id |-> editing.id, updates |-> [k \in (DOMAIN editing) \ {"id"} |-> editing[k]]],
                updateStaffOverride(data, editing.id,
                                    [k \in (DOMAIN editing) \ {"id"} |-> editing[k]]),
                TRUE, 0)

\* handleStartEdit on a listed override, setEditing by the selectors, then
\* handleSaveEdit
DialogHandleSaveEdit ==
    /\ steps < MaxSteps
    /\ \E i \in 1..Len(data.staffOverrides), edits \in DialogEdits :
          saveEdit(spread(editingOf(data.staffOverrides[i]), edits))

\* the remove button of a listed override: onRemove(so.id)
DialogRemove ==
    /\ steps < MaxSteps
    /\ \E i \in 1..Len(data.staffOverrides) :
          Mutation("removeStaffOverride", [id |-> data.staffOverrides[i].id],
                   removeStaffOverride(data, data.staffOverrides[i].id), TRUE, 0)

NextOverlay == DialogHandleAdd \/ DialogHandleSaveEdit \/ DialogRemove

SpecOverlay == InitOverlay /\ [][NextOverlay]_vars

\* indices, in storage order, of the staff overrides of the document that
\* belong to the staff member and the day and cover the slot
coveringIn(d, dayId, staffId, slot) ==
    {i \in 1..Len(d.staffOverrides) :
        /\ d.staffOverrides[i].staffId = staffId
        /\ d.staffOverrides[i].dayId = dayId
        /\ timeToMinutes(d.staffOverrides[i].startTime) <= timeToMinutes(slot)
        /\ timeToMinutes(slot) < timeToMinutes(d.staffOverrides[i].endTime)}

firstOf(S) == CHOOSE x \in S : \A y \in S : x <= y

slotsOf(d) == generateTimeSlots(d.gridStartTime, d.gridEndTime, 5)

soIds(d) == [i \in 1..Len(d.staffOverrides) |-> d.staffOverrides[i].id]

\* the cell of the staff member at the slot shows the first stored of the
\* overrides covering it
firstStoredShown(d, dayId, staffId, slot, covering) ==
    covering # {} =>
        LET first == d.staffOverrides[firstOf(covering)]
            cell  == cellOf(d, dayId, staffId, slot)
        IN  /\ cell.isGlobalOverride
            /\ cell.roleId = first.roleId
            /\ cell.note = first.note

firstStoredShownAll(d, slots) ==
    \A k \in 1..Len(d.days), c \in 1..Len(d.staff), r \in 1..Len(slots) :
        firstStoredShown(d, d.days[k].id, d.staff[c].id, slots[r],
                         coveringIn(d, d.days[k].id, d.staff[c].id, slots[r]))

\* C23: when several StaffOverrides of one staff member and day cover a slot,
\* the cell shown has the role and the note of the one stored first, whatever
\* their start times; addStaffOverride stores the new override after the
\* existing ones and updateStaffOverride leaves every override at its place,
\* so that an update of another overlapping override does not change which
\* one is shown.
C23_FirstStoredStaffOverrideWins ==
    /\ firstStoredShownAll(data, slotsOf(data))
    /\ last.op = "addStaffOverride" =>
          /\ Len(data.staffOverrides) = Len(prevData.staffOverrides) + 1
          /\ SubSeq(data.staffOverrides, 1, Len(prevData.staffOverrides))
                = prevData.staffOverrides
    /\ last.op = "updateStaffOverride" => soIds(data) = soIds(prevData)

\* some slot of the document is covered by two overrides of one staff member
\* and day with different roles, the later stored being override id
laterStoredOverlaps(d, slots, id) ==
    \E k \in 1..Len(d.days), c \in 1..Len(d.staff), r \in 1..Len(slots) :
        \E i, j \in coveringIn(d, d.days[k].id, d.staff[c].id, slots[r]) :
            /\ i < j
            /\ d.staffOverrides[j].id = id
            /\ d.staffOverrides[j].roleId # d.staffOverrides[i].roleId

\* C23 witness: two overrides of one staff member and day with different
\* roles cover a slot, and the one stored later was just updated
C23_Witness ==
    /\ last.op = "updateStaffOverride"
    /\ data.staffOverrides # prevData.staffOverrides
    /\ laterStoredOverlaps(data, slotsOf(data), last.args.id)

\* the (staffId, dayId) of the override the last mutation was about, before
\* the mutation
ownPairBefore ==
    IF last.op = "addStaffOverride"
    THEN {<<last.args.override.staffId, last.args.override.dayId>>}
    ELSE {<<prevData.staffOverrides[i].staffId, prevData.staffOverrides[i].dayId>> :
            i \in {j \in 1..Len(prevData.staffOverrides) :
                      prevData.staffOverrides[j].id = last.args.id}}

\* the (staffId, dayId) of that override after the mutation
ownPairAfter ==
    IF last.op = "addStaffOverride"
    THEN {<<last.args.override.staffId, last.args.override.dayId>>}
    ELSE {<<data.staffOverrides[i].staffId, data.staffOverrides[i].dayId>> :
            i \in {j \in 1..Len(data.staffOverrides) :
                      data.staffOverrides[j].id = last.args.id}}

\* the two grids of a day agree on every cell of the staff members that are
\* not paired with the day in pairs
sameGridOutside(g, g0, staff, dayId, pairs) ==
    /\ Len(g) = Len(g0)
    /\ \A r \in 1..Len(g), c \in 1..Len(staff) :
          <<staff[c].id, dayId>> \in pairs \/ g[r][c] = g0[r][c]

sameCellsOutside(d, d0, pairs) ==
    \A k \in 1..Len(d.days) :
        sameGridOutside(dayGridData(d, d.days[k].id), dayGridData(d0, d.days[k].id),
                        d.staff, d.days[k].id, pairs)

\* C24 as stated: adding, updating or removing a StaffOverride of staff s and
\* day d leaves every cell of every other staff member on every day, and of s
\* on every other day, as it was, s and d being those of the override when
\* the mutation is made.
C24_OnlyOwnCells ==
    last.op \in StaffOverrideOps => sameCellsOutside(data, prevData, ownPairBefore)

\* C24 amended: the cells that may change are those of the staff member and
\* day the override had before the mutation and of the staff member and day
\* it has after it (the dialog's edit row can hand the override to another
\* staff member); every other cell is as it was.
C24_OnlyOwnCellsBeforeOrAfter ==
    last.op \in StaffOverrideOps =>
        sameCellsOutside(data, prevData, ownPairBefore \cup ownPairAfter)

\* C24 witness: an edit handed an override to another staff member and the
\* grid changed
C24_Witness ==
    /\ last.op = "updateStaffOverride"
    /\ ownPairBefore # ownPairAfter
    /\ ~sameCellsOutside(data, prevData, {})

(***************************************************************************)
(* Session chain calculator applied twice (specification SpecChain)        *)
(***************************************************************************)
MaxChainLen == 2

ChainDayIds == {1, 2, 3}

\* what recomputeSessionTimes reads of a session: its day, its duration
\* (unset, 0, negative, positive) and the times it carries on entry
ChainSessionShapes ==
    {[dayId |-> d, startTime |-> <<0, 0>>, endTime |-> <<0, 0>>] : d \in ChainDayIds}
    \cup {[dayId |-> d, durationMinutes |-> m,
           startTime |-> <<9, 30>>, endTime |-> <<9, 0>>] :
              d \in ChainDayIds, m \in {0, 0 - 45, 0 - 600, 20}}

\* day configurations: the default, one with an empty and an unset
\* dayStartTime, one that starts at 00:30 and lacks day 2
ChainDayArgs == {
    DEFAULT_DAYS,
    << [id |-> 1, label |-> <<"Day", 1>>, dayStartTime |-> <<>>],
       [id |-> 2, label |-> <<"Day", 2>>] >>,
    << [id |-> 1, label |-> <<"Day", 1>>, dayStartTime |-> <<0, 30>>] >> }

ChainInput(shapes) ==
    [i \in 1..Len(shapes) |->
        spread(shapes[i], [id |-> <<"session", i>>, title |-> "t", milestones |-> <<>>])]

InitChain ==
    /\ StoreInit
    /\ io = Idle
    /\ gridv = Idle
    /\ csv = Idle
    /\ \E days \in ChainDayArgs, n \in 0..MaxChainLen :
          \E shapes \in [1..n -> ChainSessionShapes] :
              chain = [phase |-> "input", sessions |-> ChainInput(shapes), days |-> days]

\* recomputeSessionTimes(sessions, days)
ChainApply ==
    /\ chain.phase = "input"
    /\ chain' = spread(chain,
            [phase |-> "once",
             once |-> recomputeSessionTimes(chain.sessions, chain.days)])
    /\ UNCHANGED <<data, prevData, last, steps, nextId, gridv, csv, io>>

\* recomputeSessionTimes(recomputeSessionTimes(sessions, days), days)
ChainApplyAgain ==
    /\ chain.phase = "once"
    /\ chain' = spread(chain,
            [phase |-> "twice",
             twice |-> recomputeSessionTimes(chain.once, chain.days)])
    /\ UNCHANGED <<data, prevData, last, steps, nextId, gridv, csv, io>>

NextChain == ChainApply \/ ChainApplyAgain

SpecChain == InitChain /\ [][NextChain]_vars

\* C10: recomputeSessionTimes is idempotent: applied to its own output with
\* the same days it returns that output, field by field, also for sessions
\* whose durationMinutes was 0, unset or negative on entry.
C10_Idempotent ==
    chain.phase = "twice" => chain.twice = chain.once

\* the calculator ran twice on a list that holds a session without a usable
\* duration and a session with a negative one, and the first run changed it
C10_Witness ==
    /\ chain.phase = "twice"
    /\ chain.once # chain.sessions
    /\ \E i \in 1..Len(chain.sessions) :
          \/ ~Has(chain.sessions[i], "durationMinutes")
          \/ chain.sessions[i].durationMinutes = 0
    /\ \E i \in 1..Len(chain.sessions) :
          /\ Has(chain.sessions[i], "durationMinutes")
          /\ chain.sessions[i].durationMinutes < 0

(***************************************************************************)
(* Grid materializer applied to one day of a document (specification       *)
(* SpecGrid)                                                               *)
(***************************************************************************)
MaxStaffOverrides == 2

GridStaff == <<
    [id |-> <<"staff", 1>>, name |-> "Tanaka"],
    [id |-> <<"staff", 2>>, name |-> "Suzuki"] >>

\* the durations of the sessions of day 1, in master-list order, as
\* addSession stored them
GridDurationArgs == { <<20>>, <<15, 10>>, <<15, 0 - 10, 10>> }

\* the master list before recomputeSessionTimes: the sessions of day 1 as
\* addSession appends them, the first with a milestone, and one session of
\* day 2
GridSessions(durations) ==
    [i \in 1..Len(durations) |->
        [id |-> <<"session", i>>, dayId |-> 1, title |-> "t",
         durationMinutes |-> durations[i],
         startTime |-> <<0, 0>>, endTime |-> <<0, 0>>,
         milestones |-> IF i = 1
                        THEN <<[id |-> <<"id", 1>>, offsetMinutes |-> 7, label |-> "haifu"]>>
                        ELSE <<>>]]
    \o << Sess(<<"session", 9>>, 2, "furikaeri", 30, <<0, 0>>, <<0, 0>>) >>

GridAssignmentArgs == {
    <<>>,
    << [sessionId |-> <<"session", 1>>, staffId |-> <<"staff", 1>>,
        roleId |-> <<"role", 1>>, overrides |-> <<>>] >>,
    << [sessionId |-> <<"session", 1>>, staffId |-> <<"staff", 1>>,
        roleId |-> <<"role", 1>>, note |-> "memo",
        overrides |-> <<
            [id |-> <<"id", 2>>, startOffsetMinutes |-> 0, endOffsetMinutes |-> 10,
             roleId |-> <<"role", 2>>, note |-> ""],
            [id |-> <<"id", 3>>, startOffsetMinutes |-> 5, endOffsetMinutes |-> 15,
             roleId |-> <<"role", 3>>, note |-> "x"] >>] >>,
    << [sessionId |-> <<"session", 3>>, staffId |-> <<"staff", 1>>,
        roleId |-> <<"role", 2>>, overrides |-> <<>>] >>,
    << [sessionId |-> <<"session", 1>>, staffId |-> <<"staff", 1>>,
        roleId |-> <<"role", 1>>,
        overrides |-> <<
            [id |-> <<"id", 4>>, startOffsetMinutes |-> 0 - 5, endOffsetMinutes |-> 30,
             roleId |-> <<"role", 3>>, note |-> "y"] >>],
       [sessionId |-> <<"session", 2>>, staffId |-> <<"staff", 1>>,
        roleId |-> <<"role", 2>>, overrides |-> <<>>] >>,
    << [sessionId |-> <<"session", 1>>, staffId |-> <<"staff", 1>>,
        roleId |-> <<"role", 1>>, overrides |-> <<>>],
       [sessionId |-> <<"session", 2>>, staffId |-> <<"staff", 1>>,
        roleId |-> <<"role", 1>>, overrides |-> <<>>],
       [sessionId |-> <<"session", 1>>, staffId |-> <<"staff", 2>>,
        roleId |-> <<"role", 2>>, overrides |-> <<>>],
       [sessionId |-> <<"session", 9>>, staffId |-> <<"staff", 2>>,
        roleId |-> <<"role", 3>>, overrides |-> <<>>] >> }

GridStaffOverrideArgs == {
    [staffId |-> <<"staff", 1>>, dayId |-> 1, startTime |-> <<9, 0>>, endTime |-> <<9, 20>>,
     roleId |-> <<"role", 4>>, note |-> "uketsuke"],
    [staffId |-> <<"staff", 1>>, dayId |-> 1, startTime |-> <<9, 10>>, endTime |-> <<9, 30>>,
     roleId |-> <<"role", 5>>, note |-> ""],
    [staffId |-> <<"staff", 1>>, dayId |-> 1, startTime |-> <<9, 20>>, endTime |-> <<9, 30>>,
     roleId |-> <<"role", 4>>, note |-> "b"],
    [staffId |-> <<"staff", 2>>, dayId |-> 2, startTime |-> <<9, 0>>, endTime |-> <<9, 10>>,
     roleId |-> <<"role", 4>>, note |-> ""] }

\* a document as the store holds it: the sessions went through
\* recomputeSessionTimes, assignments of sessions that do not exist are gone
GridDoc(durations, assignments, overrides) ==
    LET sessions == recomputeSessionTimes(GridSessions(durations), DEFAULT_DAYS)
        Exists(a) == \E i \in 1..Len(sessions) : sessions[i].id = a.sessionId
    IN  [staff |-> GridStaff,
         roles |-> DEFAULT_ROLES,
         sessions |-> sessions,
         assignments |-> Filter(assignments, Exists),
         staffOverrides |-> [i \in 1..Len(overrides) |->
                                spread(overrides[i], [id |-> <<"id", 10 + i>>])],
         days |-> DEFAULT_DAYS,
         gridStartTime |-> <<8, 55>>,
         gridEndTime |-> <<9, 45>>]

\* the milestones the session editor added to the first session after the
\* one it has: the dropdown offers the offsets 0, 5, ..., durationMinutes;
\* an offset outside the dropdown comes from a restored file
GridMilestoneArgs == {
    <<>>,
    <<[offsetMinutes |-> 8, label |-> "kaishu"]>>,
    <<[offsetMinutes |-> 15, label |-> "matome"], [offsetMinutes |-> 0, label |-> ""]>> }

\* addMilestone on the first session for each of ms, from the i-th on
RECURSIVE addMilestones(_, _, _)
addMilestones(d, ms, i) ==
    IF i > Len(ms) THEN d
    ELSE addMilestones(
            updateData(addMilestone(d, <<"session", 1>>, ms[i], generateId("id", 20 + i)),
                       FALSE),
            ms, i + 1)

InitGrid ==
    /\ StoreInit
    /\ io = Idle
    /\ chain = Idle
    /\ csv = Idle
    /\ \E durations \in GridDurationArgs, assignments \in GridAssignmentArgs,
          n \in 0..MaxStaffOverrides, dayId \in DayArgs, milestones \in GridMilestoneArgs :
          \E overrides \in [1..n -> GridStaffOverrideArgs] :
              gridv = [phase |-> "input", dayId |-> dayId,
                       doc |-> addMilestones(GridDoc(durations, assignments, overrides),
                                             milestones, 1)]

\* SingleDayGrid: gridData of useGridData for the day
GridResolve ==
    /\ gridv.phase = "input"
    /\ gridv' = spread(gridv, [phase |-> "resolved",
                               grid |-> dayGridData(gridv.doc, gridv.dayId)])
    /\ UNCHANGED <<data, prevData, last, steps, nextId, chain, csv, io>>

\* SingleDayGrid: mergedGrid of useGridData for the day
GridMerge ==
    /\ gridv.phase = "resolved"
    /\ gridv' = spread(gridv, [phase |-> "merged",
                               merged |-> mergedGrid(gridv.grid, Len(gridv.doc.staff))])
    /\ UNCHANGED <<data, prevData, last, steps, nextId, chain, csv, io>>

NextGrid == GridResolve \/ GridMerge

SpecGrid == InitGrid /\ [][NextGrid]_vars

(***************************************************************************)
(* Properties of the grid (specification SpecGrid)                         *)
(***************************************************************************)
gridSlots == generateTimeSlots(gridv.doc.gridStartTime, gridv.doc.gridEndTime, 5)

gridResolved == gridv.phase \in {"resolved", "merged"}

\* indices of the staff overrides of the staff member and the shown day that
\* cover the slot
coveringOverrides(staffId, slot) ==
    {i \in 1..Len(gridv.doc.staffOverrides) :
        /\ gridv.doc.staffOverrides[i].staffId = staffId
        /\ gridv.doc.staffOverrides[i].dayId = gridv.dayId
        /\ timeToMinutes(gridv.doc.staffOverrides[i].startTime) <= timeToMinutes(slot)
        /\ timeToMinutes(slot) < timeToMinutes(gridv.doc.staffOverrides[i].endTime)}

\* indices of the sessions of the shown day whose [startTime, endTime) holds
\* the slot
containingSessions(slot) ==
    {i \in 1..Len(gridv.doc.sessions) :
        /\ gridv.doc.sessions[i].dayId = gridv.dayId
        /\ timeToMinutes(gridv.doc.sessions[i].startTime) <= timeToMinutes(slot)
        /\ timeToMinutes(slot) < timeToMinutes(gridv.doc.sessions[i].endTime)}

\* indices of the assignments of the staff member to the session
assignmentsFor(sessionId, staffId) ==
    {i \in 1..Len(gridv.doc.assignments) :
        /\ gridv.doc.assignments[i].sessionId = sessionId
        /\ gridv.doc.assignments[i].staffId = staffId}

\* indices of the overrides of the assignment that are active at the slot
activeOverrides(a, session, slot) ==
    {k \in 1..Len(a.overrides) :
        /\ timeToMinutes(session.startTime) + a.overrides[k].startOffsetMinutes
              <= timeToMinutes(slot)
        /\ timeToMinutes(slot)
              < timeToMinutes(session.startTime) + a.overrides[k].endOffsetMinutes}

MinOf(S) == CHOOSE x \in S : \A y \in S : x <= y

\* C2: whenever a StaffOverride of the staff member and the shown day covers
\* the slot, the resolved cell is flagged as a global override and carries
\* the role of the covering override (the first one in storage order when
\* several cover the slot), whatever sessions, overrides and assignments
\* exist at that slot.
C2_GlobalOverrideWins ==
    gridResolved =>
        \A r \in 1..Len(gridSlots), c \in 1..Len(gridv.doc.staff) :
            LET covering == coveringOverrides(gridv.doc.staff[c].id, gridSlots[r])
            IN  covering # {} =>
                    /\ gridv.grid[r][c].isGlobalOverride
                    /\ gridv.grid[r][c].roleId
                          = gridv.doc.staffOverrides[MinOf(covering)].roleId

\* a global override covers a slot at which a session-level override of the
\* staff member's assignment is active, and covers another slot that lies in
\* no session
C2_Witness ==
    /\ gridResolved
    /\ \E r \in 1..Len(gridSlots), c \in 1..Len(gridv.doc.staff) :
          /\ coveringOverrides(gridv.doc.staff[c].id, gridSlots[r]) # {}
          /\ \E i \in containingSessions(gridSlots[r]) :
                \E j \in assignmentsFor(gridv.doc.sessions[i].id, gridv.doc.staff[c].id) :
                    activeOverrides(gridv.doc.assignments[j], gridv.doc.sessions[i],
                                    gridSlots[r]) # {}
    /\ \E r \in 1..Len(gridSlots), c \in 1..Len(gridv.doc.staff) :
          /\ coveringOverrides(gridv.doc.staff[c].id, gridSlots[r]) # {}
          /\ containingSessions(gridSlots[r]) = {}

\* C3: with no global override on the slot, if the slot lies in a session
\* for which the staff member has an Assignment, the resolved role is that of
\* the first Override of the Assignment active at the slot, and the
\* Assignment's default roleId when no Override is active.
C3_OverrideElseDefault ==
    gridResolved =>
        \A r \in 1..Len(gridSlots), c \in 1..Len(gridv.doc.staff) :
            coveringOverrides(gridv.doc.staff[c].id, gridSlots[r]) = {} =>
                \A i \in containingSessions(gridSlots[r]) :
                    \A j \in assignmentsFor(gridv.doc.sessions[i].id, gridv.doc.staff[c].id) :
                        LET a == gridv.doc.assignments[j]
                            active == activeOverrides(a, gridv.doc.sessions[i], gridSlots[r])
                        IN  gridv.grid[r][c].roleId
                              = IF active # {} THEN a.overrides[MinOf(active)].roleId
                                ELSE a.roleId

\* C4: with no global override on the slot, the cell belongs to session S
\* exactly when S.startTime <= slot < S.endTime; a slot in no session gives
\* the out-of-session cell (no session, no role); a slot in a session without
\* an Assignment of the staff member gives a cell with the session and no
\* role.
C4_HalfOpenMembership ==
    gridResolved =>
        \A r \in 1..Len(gridSlots), c \in 1..Len(gridv.doc.staff) :
            coveringOverrides(gridv.doc.staff[c].id, gridSlots[r]) = {} =>
                /\ \A i \in 1..Len(gridv.doc.sessions) :
                      gridv.doc.sessions[i].dayId = gridv.dayId =>
                          ((gridv.grid[r][c].sessionId = gridv.doc.sessions[i].id)
                              <=> i \in containingSessions(gridSlots[r]))
                /\ containingSessions(gridSlots[r]) = {} =>
                      /\ gridv.grid[r][c].sessionId = <<>>
                      /\ gridv.grid[r][c].roleId = <<>>
                /\ \A i \in containingSessions(gridSlots[r]) :
                      (/\ gridv.grid[r][c].sessionId = gridv.doc.sessions[i].id
                       /\ assignmentsFor(gridv.doc.sessions[i].id,
                                         gridv.doc.staff[c].id) = {})
                          => gridv.grid[r][c].roleId = <<>>

\* the five fields the merge compares
mergeKey(cell) ==
    <<cell.sessionId, cell.roleId, cell.isOverride, cell.isGlobalOverride, cell.note>>

RECURSIVE spanSum(_, _, _)
spanSum(merged, c, r) ==
    IF r = 0 THEN 0 ELSE merged[r][c].rowSpan + spanSum(merged, c, r - 1)

\* C5: in every staff column the merge is a lossless partition of the slot
\* rows: first cells have rowSpan >= 1, the other cells rowSpan 0, the
\* rowSpans add up to the number of slots, the rows a first cell spans carry
\* the five fields of the unmerged cells row by row, and two adjacent rows
\* are in one merged cell exactly when they agree on the five fields.
C5_MergeLossless ==
    gridv.phase = "merged" =>
        \A c \in 1..Len(gridv.doc.staff) :
            LET n == Len(gridSlots)
                m == gridv.merged
            IN  /\ Len(m) = n
                /\ \A r \in 1..n :
                      IF m[r][c].isFirst THEN m[r][c].rowSpan >= 1
                      ELSE m[r][c].rowSpan = 0
                /\ n > 0 => m[1][c].isFirst
                /\ spanSum(m, c, n) = n
                /\ \A r \in 1..n :
                      m[r][c].isFirst =>
                          /\ r + m[r][c].rowSpan - 1 <= n
                          /\ \A k \in 0..(m[r][c].rowSpan - 1) :
                                /\ mergeKey(m[r][c].info) = mergeKey(gridv.grid[r + k][c])
                                /\ mergeKey(m[r + k][c].info) = mergeKey(gridv.grid[r + k][c])
                                /\ k > 0 => ~m[r + k][c].isFirst
                /\ \A r \in 1..(n - 1) :
                      (~m[r + 1][c].isFirst)
                          <=> (mergeKey(gridv.grid[r][c]) = mergeKey(gridv.grid[r + 1][c]))

\* a merged column in which one cell spans several rows and two adjacent
\* cells differ in nothing but the note
C5_Witness ==
    /\ gridv.phase = "merged"
    /\ \E c \in 1..Len(gridv.doc.staff) :
          /\ \E r \in 1..Len(gridSlots) : gridv.merged[r][c].rowSpan > 1
          /\ \E r \in 1..(Len(gridSlots) - 1) :
                /\ gridv.merged[r + 1][c].isFirst
                /\ gridv.grid[r][c].note # gridv.grid[r + 1][c].note
                /\ sameGroupNoNote(gridv.grid[r + 1][c], gridv.grid[r][c])

\* the rows of the resolved grid whose cell of column c lists the resolved
\* milestone
rowsShowing(grid, c, resolved) ==
    {r \in 1..Len(grid) :
        \E k \in 1..Len(grid[r][c].milestones) : grid[r][c].milestones[k] = resolved}

\* the milestone of the session is listed, in every staff column, in the
\* rows of the slot its absolute time snaps down to, and in no other row
shownAtSnappedSlot(session, ms) ==
    LET absMin   == timeToMinutes(session.startTime) + ms.offsetMinutes
        slot     == minutesToTime((absMin \div 5) * 5)
        resolved == [time |-> minutesToTime(absMin), label |-> ms.label]
    IN  \A c \in 1..Len(gridv.doc.staff) :
            rowsShowing(gridv.grid, c, resolved)
                = {r \in 1..Len(gridSlots) : gridSlots[r] = slot}

\* C25: every milestone with a non-empty label and an offset within
\* [0, durationMinutes] of its session is listed in exactly one slot of the
\* day's grid, the slot of session.startTime + offsetMinutes snapped down to
\* five minutes when the display window has that slot, in every staff
\* column; milestones snapping to one slot are all listed there.
C25_MilestoneAtSnappedSlot ==
    gridResolved =>
        \A i \in 1..Len(gridv.doc.sessions) :
            gridv.doc.sessions[i].dayId = gridv.dayId =>
                \A k \in 1..Len(gridv.doc.sessions[i].milestones) :
                    LET ms == gridv.doc.sessions[i].milestones[k]
                    IN  (/\ ms.label # ""
                         /\ ms.offsetMinutes >= 0
                         /\ ms.offsetMinutes <= gridv.doc.sessions[i].durationMinutes)
                            => shownAtSnappedSlot(gridv.doc.sessions[i], ms)

(***************************************************************************)
(* CSV parser run row by row (specification SpecCsv)                       *)
(***************************************************************************)
MaxTicks == 3

\* the texts of the ticks of the hours 9 and 10, five minutes apart
TickTexts == [h \in {9, 10} |->
    IF h = 9 THEN <<"09:00", "09:05", "09:10", "09:15", "09:20", "09:25">>
    ELSE <<"10:00", "10:05", "10:10", "10:15", "10:20", "10:25">>]

\* what the two staff columns of a tick row hold
CsvTickArgs == {Blank, Tx("happyo"), Tx("support")} \X {Blank, Tx("support")}

CsvHeader == <<Blank, Tx("Tanaka"), Tx("Suzuki")>>

CsvDate1 == <<Dt("2025-07-01", "2025-07-01")>>

CsvDate2 == <<Dt("7gatsu2nichi", "7gatsu2nichi"), Blank, Blank>>

\* the tick rows of one day that starts at hour h
CsvDayRows(h, ticks) ==
    [k \in 1..Len(ticks) |->
        <<Tm(TickTexts[h][k], <<h, 5 * (k - 1)>>), ticks[k][1], ticks[k][2]>>]

\* inputs outside the families: no rows, a blank line, ticks without any
\* header, the fixture, a day with lines between the ticks, an unpadded
\* tick, a date followed by ticks but no header, two days with ticks at the
\* same times
CsvOddArgs == {
    <<>>,
    << <<Blank>> >>,
    << <<Tx("memo")>>, <<Tm("09:00", <<9, 0>>), Tx("happyo"), Tx("support")>> >>,
    CanonicalFixture,
    << CsvDate1, <<Tx("memo")>>, CsvHeader,
       <<Tm("09:00", <<9, 0>>), Tx("happyo"), Blank>>,
       <<Blank>>,
       <<Tm("09:05", <<9, 5>>), Tx("happyo"), Tx("support")>>,
       <<Lg("a line of more than twenty characters")>>,
       <<Tm("09:10", <<9, 10>>), Blank, Tx("support")>> >>,
    << CsvHeader,
       <<Tm("9:00", <<9, 0>>), Tx("happyo"), Tx("happyo")>>,
       <<Tm("9:05", <<9, 5>>), Tx("support"), Blank>> >>,
    << CsvDate1, <<Tm("09:00", <<9, 0>>), Tx("happyo"), Tx("support")>> >>,
    << CsvDate1, CsvHeader,
       <<Tm("09:00", <<9, 0>>), Tx("happyo"), Tx("support")>>,
       <<Tm("09:05", <<9, 5>>), Tx("happyo"), Blank>>,
       CsvDate2, CsvHeader,
       <<Tm("09:00", <<9, 0>>), Tx("happyo"), Tx("support")>>,
       <<Tm("09:05", <<9, 5>>), Blank, Blank>> >> }

\* inputs in which the parser finds neither a date nor a staff header: rows
\* of two cells, a header with a single name, ticks with a single staff
\* column, cells of twenty characters or more, times where names would be
CsvNoDataArgs == {
    << <<Tx("memo")>>, <<Tx("Tanaka"), Tx("Suzuki")>> >>,
    << <<Blank, Tx("Tanaka"), Blank>> >>,
    << <<Tm("09:00", <<9, 0>>), Tx("happyo")>>, <<Tm("09:05", <<9, 5>>), Tx("happyo")>> >>,
    << <<Blank, Lg("a line of more than twenty characters"),
         Lg("another line of more than twenty characters")>> >>,
    << <<Blank, Tm("09:00", <<9, 0>>), Tm("09:05", <<9, 5>>)>>, <<Blank>> >> }

CsvInputs ==
    UNION { { <<CsvDate1, CsvHeader>> \o CsvDayRows(9, ticks) :
                ticks \in [1..n -> CsvTickArgs] } : n \in 0..MaxTicks }
    \cup { <<CsvHeader>> \o CsvDayRows(9, ticks) : ticks \in [1..2 -> CsvTickArgs] }
    \cup { <<CsvDate1, CsvHeader>> \o CsvDayRows(9, first) \o <<CsvDate2>>
              \o header \o CsvDayRows(10, second) :
                first \in [1..1 -> CsvTickArgs], second \in [1..1 -> CsvTickArgs],
                header \in {<<>>, <<CsvHeader>>} }
    \cup CsvOddArgs
    \cup CsvNoDataArgs

\* a project with ten roles, 'support' among them and 'happyo' not
TenRoleNames == << "support", "satsuei", "jimukyoku", "chushoku", "kyukei",
                   "uketsuke", "shikai", "kiroku", "annai", "yobi" >>

TenRoles == [i \in 1..Len(TenRoleNames) |->
    [id |-> <<"role", i>>, name |-> TenRoleNames[i],
     color |-> ROLE_PALETTE[i], textColor |-> "#1a1a1a"]]

\* the roles of the project the CSV is imported into
CsvRoleArgs == {<<>>, DEFAULT_ROLES, TenRoles}

InitCsv ==
    /\ StoreInit
    /\ io = Idle
    /\ chain = Idle
    /\ gridv = Idle
    /\ \E rows \in CsvInputs, currentRoles \in CsvRoleArgs :
          csv = [phase |-> "rows", p |-> csvStart(rows, currentRoles),
                 ticks |-> <<>>, currentRoles |-> currentRoles]

csvMoreRows == csv.phase = "rows" /\ csv.p.rowIdx <= Len(csv.p.rows)

\* the row loop, case 'SEEK_DAY'
SeekDay ==
    /\ csvMoreRows
    /\ csv.p.state = "SEEK_DAY"
    /\ csv' = spread(csv, [p |-> seekDayRow(csv.p)])
    /\ UNCHANGED <<data, prevData, last, steps, nextId, chain, gridv, io>>

\* the row loop, case 'SEEK_HEADER'
SeekHeader ==
    /\ csvMoreRows
    /\ csv.p.state = "SEEK_HEADER"
    /\ csv' = spread(csv, [p |-> seekHeaderRow(csv.p)])
    /\ UNCHANGED <<data, prevData, last, steps, nextId, chain, gridv, io>>

\* the ticks the parser read so far: the day, the time and, per staff
\* column, the text of the cell
tickOf(p, row) ==
    [dayId |-> p.currentDayId, time |-> row[1].time,
     labels |-> [si \in 1..Len(p.globalStaffNames) |-> cellAt(row, si).text]]

\* the row loop, case 'READING_DATA'
ReadingData ==
    /\ csvMoreRows
    /\ csv.p.state = "READING_DATA"
    /\ csv' = spread(csv,
            [p |-> readingDataRow(csv.p),
             ticks |-> IF isTimeRow(csv.p.rows[csv.p.rowIdx])
                       THEN Append(csv.ticks, tickOf(csv.p, csv.p.rows[csv.p.rowIdx]))
                       ELSE csv.ticks])
    /\ UNCHANGED <<data, prevData, last, steps, nextId, chain, gridv, io>>

\* after the row loop: the last finalizeCurrentDay and the result
CsvFinish ==
    /\ csv.phase = "rows"
    /\ csv.p.rowIdx > Len(csv.p.rows)
    /\ csv' = spread(csv, [phase |-> "done", result |-> csvResult(csv.p)])
    /\ UNCHANGED <<data, prevData, last, steps, nextId, chain, gridv, io>>

NextCsv == SeekDay \/ SeekHeader \/ ReadingData \/ CsvFinish

SpecCsv == InitCsv /\ [][NextCsv]_vars

(***************************************************************************)
(* Properties of the CSV parser (specification SpecCsv)                    *)
(***************************************************************************)
RECURSIVE SetToSeq(_)
SetToSeq(S) == IF S = {} THEN <<>> ELSE <<MinOf(S)>> \o SetToSeq(S \ {MinOf(S)})

\* the ticks of day dayId, in reading order
dayTicks(dayId) ==
    LET OfDay(t) == t.dayId = dayId
    IN  Filter(csv.ticks, OfDay)

\* the indices at which a maximal run of column si starts
runStarts(T, si) ==
    {i \in 1..Len(T) :
        /\ T[i].labels[si] # ""
        /\ (i = 1 \/ T[i - 1].labels[si] # T[i].labels[si])}

\* the end of the run of column si that starts at tick i: the first later
\* tick with another or no label, five minutes after the day's last tick
\* when the run is still open at the end of the day
runEnd(T, si, i) ==
    LET later == {j \in (i + 1)..Len(T) : T[j].labels[si] # T[i].labels[si]}
    IN  IF later # {} THEN T[MinOf(later)].time
        ELSE minutesToTime(timeToMinutes(T[Len(T)].time) + 5)

\* the runs of column si on day dayId as <<start, end, label>>, in order
runsOf(dayId, si) ==
    LET T == dayTicks(dayId)
        starts == SetToSeq(runStarts(T, si))
    IN  [k \in 1..Len(starts) |->
            <<T[starts[k]].time, runEnd(T, si, starts[k]), T[starts[k]].labels[si]>>]

resultSession(id) ==
    csv.result.sessions[CHOOSE i \in 1..Len(csv.result.sessions) :
                            csv.result.sessions[i].id = id]

resultRole(id) ==
    csv.result.roles[CHOOSE i \in 1..Len(csv.result.roles) : csv.result.roles[i].id = id]

\* the assignments of staff member si to sessions of day dayId as
\* <<session start, session end, role name>>, in the order of the result
emittedFor(dayId, si) ==
    LET Mine(a) == /\ a.staffId = csv.result.staff[si].id
                   /\ resultSession(a.sessionId).dayId = dayId
        Shape(a) == <<resultSession(a.sessionId).startTime,
                      resultSession(a.sessionId).endTime,
                      resultRole(a.roleId).name>>
    IN  Map(Filter(csv.result.assignments, Mine), Shape)

\* C6: for every staff column and day, the assignments of that staff member
\* are, one for one and in order, the maximal runs of equal non-blank labels
\* over the day's ticks: each goes to a session of that day from the tick at
\* which the run started to the first later tick with a blank or different
\* cell, with the role named by the label; blank cells give no assignment.
C6_OneAssignmentPerRun ==
    csv.phase = "done" =>
        /\ \A i \in 1..Len(csv.result.assignments) :
              /\ \E k \in 1..Len(csv.result.sessions) :
                    csv.result.sessions[k].id = csv.result.assignments[i].sessionId
              /\ \E k \in 1..Len(csv.result.roles) :
                    csv.result.roles[k].id = csv.result.assignments[i].roleId
              /\ \E k \in 1..Len(csv.result.staff) :
                    csv.result.staff[k].id = csv.result.assignments[i].staffId
        /\ \A si \in 1..Len(csv.result.staff) :
              \A dayId \in 1..csv.p.currentDayId :
                  emittedFor(dayId, si) = runsOf(dayId, si)

\* a parse in which one column had a run closed by a different label and a
\* run closed by a blank cell
C6_Witness ==
    /\ csv.phase = "done"
    /\ Len(csv.result.assignments) >= 2
    /\ \E si \in 1..Len(csv.result.staff) :
          /\ \E i \in 1..(Len(csv.ticks) - 1) :
                /\ csv.ticks[i].dayId = csv.ticks[i + 1].dayId
                /\ csv.ticks[i].labels[si] # ""
                /\ csv.ticks[i + 1].labels[si] # ""
                /\ csv.ticks[i + 1].labels[si] # csv.ticks[i].labels[si]
          /\ \E i \in 1..(Len(csv.ticks) - 1) :
                /\ csv.ticks[i].dayId = csv.ticks[i + 1].dayId
                /\ csv.ticks[i].labels[si] # ""
                /\ csv.ticks[i + 1].labels[si] = ""

\* the parse of the canonical fixture with no roles passed in
csvFixtureParsed ==
    /\ csv.phase = "done"
    /\ csv.p.rows = CanonicalFixture
    /\ \A i \in 1..Len(csv.result.roles) : csv.result.roles[i].id[1] = "csv"

\* C7: the canonical fixture parsed with no roles passed in gives the staff
\* Tanaka and Suzuki on one day, exactly the sessions 09:00-09:10 and
\* 09:00-09:15, exactly two assignments (Tanaka to the first with the role
\* happyo, Suzuki to the second with the role support) and exactly the two
\* created roles happyo and support.
C7_CanonicalFixture ==
    csvFixtureParsed =>
        LET r == csv.result
        IN  /\ [i \in 1..Len(r.staff) |-> r.staff[i].name] = <<"Tanaka", "Suzuki">>
            /\ Len(r.days) = 1
            /\ [i \in 1..Len(r.sessions) |->
                    <<r.sessions[i].dayId, r.sessions[i].startTime, r.sessions[i].endTime>>]
                 = << <<1, <<9, 0>>, <<9, 10>> >>, <<1, <<9, 0>>, <<9, 15>> >> >>
            /\ [i \in 1..Len(r.roles) |-> r.roles[i].name] = <<"happyo", "support">>
            /\ r.assignments = <<
                    [sessionId |-> r.sessions[1].id, staffId |-> r.staff[1].id,
                     roleId |-> r.roles[1].id, overrides |-> <<>>],
                    [sessionId |-> r.sessions[2].id, staffId |-> r.staff[2].id,
                     roleId |-> r.roles[2].id, overrides |-> <<>>] >>
            /\ Cardinality({r.sessions[1].id, r.sessions[2].id, r.staff[1].id,
                            r.staff[2].id, r.roles[1].id, r.roles[2].id}) = 6

\* the fixture went through the parser and two assignments came out
C7_Witness ==
    /\ csvFixtureParsed
    /\ Len(csv.ticks) = 4
    /\ Len(csv.result.assignments) = 2

(***************************************************************************)
(* Project file I/O (src/components/project-io.tsx)                        *)
(*                                                                         *)
(* A JavaScript value is a record [t, v]: its kind and its payload.  Only  *)
(* the top level of a parsed file is tagged; what the arrays of a document *)
(* hold is kept as the store keeps it.  A file name is the sequence of its *)
(* stem and its suffix.                                                    *)
(***************************************************************************)
Null    == [t |-> "null", v |-> <<>>]
Str(s)  == [t |-> "string", v |-> s]
Num(n)  == [t |-> "number", v |-> n]
Arr(a)  == [t |-> "array", v |-> a]
Obj(r)  == [t |-> "object", v |-> r]

\* !data
falsy(x) ==
    \/ x.t = "null"
    \/ (x.t = "string" /\ x.v = "")
    \/ (x.t = "number" /\ x.v = 0)

\* typeof data
typeOf(x) == IF x.t \in {"null", "array", "object"} THEN "object" ELSE x.t

\* key in obj, for the keys of REQUIRED_FIELDS (an array has none of them)
hasKey(x, key) == x.t = "object" /\ key \in DOMAIN x.v

\* Array.isArray(obj[key])
isArrayAt(x, key) == hasKey(x, key) /\ x.v[key].t = "array"

REQUIRED_FIELDS ==
    <<"staff", "roles", "sessions", "assignments", "days", "gridStartTime", "gridEndTime">>

ARRAY_FIELDS == <<"staff", "roles", "sessions", "assignments", "days">>

\* validateProjectData without the Array.isArray checks
validateProjectDataKeysOnly(x) ==
    LET Missing(key) == ~hasKey(x, key)
    IN  IF falsy(x) \/ typeOf(x) # "object"
        THEN [valid |-> FALSE, error |-> <<"not JSON">>]
        ELSE IF Filter(REQUIRED_FIELDS, Missing) # <<>>
        THEN [valid |-> FALSE, error |-> <<"missing">> \o Filter(REQUIRED_FIELDS, Missing)]
        ELSE [valid |-> TRUE, data |-> x]

validateProjectData(x) ==
    LET Missing(key)  == ~hasKey(x, key)
        NotArray(key) == ~isArrayAt(x, key)
    IN  IF falsy(x) \/ typeOf(x) # "object"
        THEN [valid |-> FALSE, error |-> <<"not JSON">>]
        ELSE IF Filter(REQUIRED_FIELDS, Missing) # <<>>
        THEN [valid |-> FALSE, error |-> <<"missing">> \o Filter(REQUIRED_FIELDS, Missing)]
        ELSE IF Filter(ARRAY_FIELDS, NotArray) # <<>>
        THEN [valid |-> FALSE,
              error |-> <<"not an array", Filter(ARRAY_FIELDS, NotArray)[1]>>]
        ELSE [valid |-> TRUE, data |-> x]

\* data as ShiftData: the document the store receives
asShiftData(x) == [key \in DOMAIN x.v |-> x.v[key].v]

\* the JSON text of a document, as JSON.parse reads it back
jsonOf(doc) ==
    Obj([key \in DOMAIN doc |->
            IF key \in {"gridStartTime", "gridEndTime"} THEN Str(doc[key]) ELSE Arr(doc[key])])

\* file.name.endsWith('.json')
endsWithJson(name) == name[Len(name)] = ".json"

\* the component's state: useState of confirmOpen, pendingData,
\* pendingFileName and resultDialog, and the FileReaders still reading
NoData == <<>>

ProjectIOInit ==
    [confirmOpen |-> FALSE, pendingData |-> NoData, pendingFileName |-> <<>>,
     resultDialog |-> [open |-> FALSE, success |-> FALSE, message |-> <<>>],
     readers |-> {}]

failure(c, message) ==
    spread(c, [resultDialog |-> [open |-> TRUE, success |-> FALSE, message |-> message]])

\* handleFileChange with the file the input holds
handleFileChange(c, file) ==
    IF ~endsWithJson(file.name) THEN failure(c, <<"select a .json file">>)
    ELSE spread(c, [readers |-> c.readers \cup {file}])

\* what reader.onload does with a parsed value
afterParse(c, file, result) ==
    IF ~result.valid THEN failure(c, result.error)
    ELSE spread(c, [pendingData |-> result.data, pendingFileName |-> file.name,
                    confirmOpen |-> TRUE])

\* reader.onload taking the parsed value without validating it
readerOnLoadUnvalidated(c, file) ==
    IF ~file.parses
    THEN failure(spread(c, [readers |-> c.readers \ {file}]), <<"JSON parse failed">>)
    ELSE afterParse(spread(c, [readers |-> c.readers \ {file}]), file,
                    [valid |-> TRUE, data |-> file.value])

\* reader.onload: JSON.parse throws on text that is not JSON
readerOnLoad(c, file) ==
    IF ~file.parses
    THEN failure(spread(c, [readers |-> c.readers \ {file}]), <<"JSON parse failed">>)
    ELSE afterParse(spread(c, [readers |-> c.readers \ {file}]), file,
                    validateProjectData(file.value))

\* reader.onerror
readerOnError(c, file) ==
    failure(spread(c, [readers |-> c.readers \ {file}]), <<"read failed">>)

\* handleConfirmImport: the component's part
handleConfirmImport(c) ==
    IF c.pendingData = NoData THEN c
    ELSE spread(c, [confirmOpen |-> FALSE, pendingData |-> NoData,
                    resultDialog |->
                        [open |-> TRUE, success |-> TRUE,
                         message |-> <<"restored",
                                       Len(asShiftData(c.pendingData).staff),
                                       Len(asShiftData(c.pendingData).days),
                                       Len(asShiftData(c.pendingData).sessions)>>]])

\* handleConfirmImport: the document after onReplace(pendingData)
confirmedData(c, d) ==
    IF c.pendingData = NoData THEN d
    ELSE updateData(replaceData(d, asShiftData(c.pendingData)), FALSE)

handleCancelImport(c) ==
    spread(c, [confirmOpen |-> FALSE, pendingData |-> NoData, pendingFileName |-> <<>>])

(***************************************************************************)
(* validateProjectData on drawn values (specification SpecValidate)        *)
(***************************************************************************)
Absent == [t |-> "absent", v |-> <<>>]

\* what a top-level property of a drawn object is: not there, an empty
\* array, an array holding something that is no entity, or a string
FieldChoices == {Absent, Arr(<<>>), Arr(<<Null>>), Str("x")}

RequiredKeys == {REQUIRED_FIELDS[i] : i \in 1..Len(REQUIRED_FIELDS)}

\* the object with the properties that choice puts there
objectOf(choice) ==
    Obj([key \in {k \in DOMAIN choice : choice[k] # Absent} |-> choice[key]])

NonObjects == {Null, Str(""), Str("x"), Num(0), Num(7), Arr(<<>>), Arr(<<Str("staff")>>)}

InitValidate ==
    /\ StoreInit
    /\ chain = Idle
    /\ gridv = Idle
    /\ csv = Idle
    /\ \/ \E x \in NonObjects : io = [phase |-> "input", input |-> x]
       \/ \E choice \in [RequiredKeys -> FieldChoices], so \in {Absent, Arr(<<>>)} :
             io = [phase |-> "input",
                   input |-> objectOf([key \in RequiredKeys \cup {"staffOverrides"} |->
                                          IF key = "staffOverrides" THEN so ELSE choice[key]])]

\* validateProjectData(parsed)
Validate ==
    /\ io.phase = "input"
    /\ io' = [phase |-> "validated", input |-> io.input,
              result |-> validateProjectData(io.input)]
    /\ UNCHANGED <<data, prevData, last, steps, nextId, chain, gridv, csv>>

NextValidate == Validate

SpecValidate == InitValidate /\ [][NextValidate]_vars

\* C17: validateProjectData fails, with a message, exactly when the input is
\* not an object, lacks one of the seven top-level keys, or one of staff,
\* roles, sessions, assignments, days is not an array; otherwise it returns
\* valid with the input itself, whatever the arrays hold and with or
\* without staffOverrides.
C17_ValidationExact ==
    io.phase = "validated" =>
        LET x == io.input
            mustFail ==
                \/ x.t # "object"
                \/ \E key \in {"staff", "roles", "sessions", "assignments", "days",
                               "gridStartTime", "gridEndTime"} : key \notin DOMAIN x.v
                \/ \E key \in {"staff", "roles", "sessions", "assignments", "days"} :
                        x.v[key].t # "array"
        IN  /\ io.result.valid = ~mustFail
            /\ io.result.valid => io.result.data = x
            /\ ~io.result.valid => (Has(io.result, "error") /\ io.result.error # <<>>)

\* a document without staffOverrides whose arrays hold things that are no
\* entities passed validation
C17_Witness ==
    /\ io.phase = "validated"
    /\ io.result.valid
    /\ "staffOverrides" \notin DOMAIN io.input.v
    /\ io.input.v.sessions = Arr(<<Null>>)
    /\ io.input.v.gridStartTime = Arr(<<>>)

(***************************************************************************)
(* The project-restore workflow (specification SpecRestore): the          *)
(* component's handlers, the FileReader callbacks and the store's          *)
(* replaceData behind onReplace                                            *)
(***************************************************************************)
MaxRestoreSteps == 4

\* a v1 export: no days, no staffOverrides
ProjectFileV1 ==
    [key \in (DOMAIN ProjectFile) \ {"days"} |-> ProjectFile[key]]

\* the files the user picks: name, whether the text is JSON, and the value
\* JSON.parse gives
RestoreFiles == {
    [name |-> <<"notes", ".txt">>,    parses |-> TRUE,  value |-> jsonOf(DEFAULT_SHIFT_DATA)],
    [name |-> <<"data", ".JSON">>,    parses |-> TRUE,  value |-> jsonOf(SeedReordered)],
    [name |-> <<"broken", ".json">>,  parses |-> FALSE, value |-> Null],
    [name |-> <<"null", ".json">>,    parses |-> TRUE,  value |-> Null],
    [name |-> <<"list", ".json">>,    parses |-> TRUE,  value |-> Arr(<<>>)],
    [name |-> <<"v1", ".json">>,      parses |-> TRUE,  value |-> jsonOf(ProjectFileV1)],
    [name |-> <<"staff", ".json">>,   parses |-> TRUE,
     value |-> Obj(spread(jsonOf(SeedDoc).v, [staff |-> Obj([id |-> "staff-1"])]))],
    [name |-> <<"project", ".json">>, parses |-> TRUE,  value |-> jsonOf(ProjectFile)],
    [name |-> <<"export", ".json">>,  parses |-> TRUE,  value |-> jsonOf(SeedDoc)] }

InitRestore ==
    /\ data \in {DEFAULT_SHIFT_DATA, SeedLoaded}
    /\ prevData = data
    /\ last = [op |-> "init", args |-> <<>>]
    /\ steps = 0
    /\ nextId = 0
    /\ chain = Idle
    /\ gridv = Idle
    /\ csv = Idle
    /\ io = ProjectIOInit

\* one handler or callback ran: the component is now c and the document d
Handled(op, file, c, d) ==
    /\ io' = c
    /\ data' = d
    /\ prevData' = data
    /\ last' = [op |-> op, args |-> [file |-> file, before |-> io]]
    /\ steps' = steps + 1
    /\ UNCHANGED <<nextId, chain, gridv, csv>>

\* the confirmation dialog is on screen: open, or just closed and fading
confirmOnScreen ==
    \/ io.confirmOpen
    \/ last.op \in {"handleConfirmImport", "handleCancelImport", "confirmOpenChange"}

\* the user picks a file (the button is behind an open dialog otherwise)
HandleFileChange ==
    /\ steps < MaxRestoreSteps
    /\ ~io.confirmOpen /\ ~io.resultDialog.open
    /\ \E file \in RestoreFiles :
           Handled("handleFileChange", file.name, handleFileChange(io, file), data)

ReaderOnLoad ==
    /\ steps < MaxRestoreSteps
    /\ \E file \in io.readers :
           Handled("readerOnLoad", file.name, readerOnLoad(io, file), data)

ReaderOnError ==
    /\ steps < MaxRestoreSteps
    /\ \E file \in io.readers :
           Handled("readerOnError", file.name, readerOnError(io, file), data)

HandleConfirmImport ==
    /\ steps < MaxRestoreSteps
    /\ confirmOnScreen
    /\ Handled("handleConfirmImport", <<>>, handleConfirmImport(io), confirmedData(io, data))

HandleCancelImport ==
    /\ steps < MaxRestoreSteps
    /\ confirmOnScreen
    /\ Handled("handleCancelImport", <<>>, handleCancelImport(io), data)

\* onOpenChange={setConfirmOpen}: Escape or a click outside the dialog
ConfirmOpenChange ==
    /\ steps < MaxRestoreSteps
    /\ io.confirmOpen
    /\ Handled("confirmOpenChange", <<>>, spread(io, [confirmOpen |-> FALSE]), data)

\* the OK button or onOpenChange of the result dialog
ResultOpenChange ==
    /\ steps < MaxRestoreSteps
    /\ io.resultDialog.open
    /\ Handled("resultOpenChange", <<>>,
               spread(io, [resultDialog |-> spread(io.resultDialog, [open |-> FALSE])]), data)

NextRestore ==
    \/ HandleFileChange \/ ReaderOnLoad \/ ReaderOnError
    \/ HandleConfirmImport \/ HandleCancelImport
    \/ ConfirmOpenChange \/ ResultOpenChange

SpecRestore == InitRestore /\ [][NextRestore]_vars

\* a parsed value that has the seven keys, five of them arrays
passesValidation(x) ==
    /\ x.t = "object"
    /\ {"staff", "roles", "sessions", "assignments", "days",
        "gridStartTime", "gridEndTime"} \subseteq DOMAIN x.v
    /\ \A key \in {"staff", "roles", "sessions", "assignments", "days"} :
          x.v[key].t = "array"

\* C16: in the restore workflow the live document changes only in the
\* confirm step, and then to the pending document, which is always the
\* parsed content of a .json file that passed validation; picking a file,
\* a load that fails to parse or to validate, a read error and cancelling
\* leave the document as it was, and a confirm without pending data changes
\* nothing at all.
C16_ReplaceOnlyOnConfirm ==
    /\ io.pendingData # NoData =>
          /\ passesValidation(io.pendingData)
          /\ \E file \in RestoreFiles :
                /\ endsWithJson(file.name)
                /\ file.parses
                /\ file.value = io.pendingData
    /\ (last.op # "init" /\ last.op # "handleConfirmImport") => data = prevData
    /\ last.op = "handleConfirmImport" =>
          IF last.args.before.pendingData = NoData
          THEN data = prevData /\ io = last.args.before
          ELSE /\ passesValidation(last.args.before.pendingData)
               /\ data = migrateData(asShiftData(last.args.before.pendingData))
    /\ last.op = "handleCancelImport" => io.pendingData = NoData /\ ~io.confirmOpen
    /\ (last.op = "readerOnLoad" /\ io.pendingData # last.args.before.pendingData) =>
          \E file \in RestoreFiles :
              file.name = last.args.file /\ file.value = io.pendingData

\* a validated file was confirmed and replaced a different document, and the
\* confirm button was pressed once more with nothing pending
C16_Witness ==
    /\ last.op = "handleConfirmImport"
    /\ last.args.before.pendingData = NoData
    /\ last.args.before.resultDialog.success
    /\ data # DEFAULT_SHIFT_DATA
    /\ data # SeedLoaded

(***************************************************************************)
(* The CSV parser on inputs without data (specification SpecCsv)           *)
(***************************************************************************)
\* the input holds no row with a date and no row the parser takes for a
\* staff header
noDataInput ==
    \A i \in 1..Len(csv.p.rows) :
        /\ detectDateInRow(csv.p.rows[i]) = ""
        /\ ~isStaffHeaderRow(csv.p.rows[i])

\* C18 as stated: on an input without a date row and without a staff-header
\* row the result has exactly one warning, the explanatory one, and its
\* staff, days, sessions and assignments are all empty.
C18_NoDataAllEmpty ==
    (csv.phase = "done" /\ noDataInput) =>
        /\ csv.result.warnings = <<[kind |-> "noData"]>>
        /\ csv.result.staff = <<>>
        /\ csv.result.days = <<>>
        /\ csv.result.sessions = <<>>
        /\ csv.result.assignments = <<>>

\* C18 amended: on such an input the result has exactly one warning, the
\* explanatory one, its staff, sessions and assignments are empty, and its
\* days are the two default days 1 'Day 1' and 2 'Day 2'.
C18_NoDataDefaultDays ==
    (csv.phase = "done" /\ noDataInput) =>
        /\ csv.result.warnings = <<[kind |-> "noData"]>>
        /\ csv.result.staff = <<>>
        /\ csv.result.days = <<[id |-> 1, label |-> <<"Day", 1>>],
                               [id |-> 2, label |-> <<"Day", 2>>]>>
        /\ csv.result.sessions = <<>>
        /\ csv.result.assignments = <<>>
        /\ csv.result.dayResults = <<>>

\* the parser went through rows with ticks and labels but found neither a
\* date nor a staff header
C18_Witness ==
    /\ csv.phase = "done"
    /\ noDataInput
    /\ Len(csv.p.rows) = 2
    /\ isTimeRow(csv.p.rows[1])
    /\ csv.p.rowIdx = 3

(***************************************************************************)
(* The CSV parser at the end of a day (specification SpecCsv)              *)
(***************************************************************************)
\* the days whose end the parser has passed: all but the current one while
\* rows are read, all of them once the result is built
finishedDays ==
    IF csv.phase = "done" THEN 1..csv.p.currentDayId ELSE 1..(csv.p.currentDayId - 1)

\* sessions, assignments and roles as they stand: the accumulators while rows
\* are read, the result afterwards
csvSessionsNow == IF csv.phase = "done" THEN csv.result.sessions ELSE csv.p.allSessions
csvAssignmentsNow ==
    IF csv.phase = "done" THEN csv.result.assignments ELSE csv.p.allAssignments
csvRolesNow == IF csv.phase = "done" THEN csv.result.roles ELSE csv.p.allRoles

\* the tick at which the run of column si that holds the last tick of T began
lastRunStart(T, si) ==
    CHOOSE i \in 1..Len(T) :
        /\ \A j \in i..Len(T) : T[j].labels[si] = T[Len(T)].labels[si]
        /\ (i = 1 \/ T[i - 1].labels[si] # T[Len(T)].labels[si])

\* some assignment gives staff member si the role named label in a session
\* of the day from start to end
assignedRun(dayId, si, start, end, label) ==
    \E a \in 1..Len(csvAssignmentsNow) :
        /\ csvAssignmentsNow[a].staffId = csv.p.globalStaff[si].id
        /\ \E r \in 1..Len(csvRolesNow) :
              /\ csvRolesNow[r].id = csvAssignmentsNow[a].roleId
              /\ csvRolesNow[r].name = label
        /\ \E s \in 1..Len(csvSessionsNow) :
              /\ csvSessionsNow[s].id = csvAssignmentsNow[a].sessionId
              /\ csvSessionsNow[s].dayId = dayId
              /\ csvSessionsNow[s].startTime = start
              /\ csvSessionsNow[s].endTime = end

\* the run of column si open at the last tick of the finished day is an
\* assignment of that day ending five minutes after the last tick
openRunClosed(dayId, si, T) ==
    (Len(T) > 0 /\ T[Len(T)].labels[si] # "") =>
        assignedRun(dayId, si, T[lastRunStart(T, si)].time,
                    minutesToTime(timeToMinutes(T[Len(T)].time) + 5),
                    T[Len(T)].labels[si])

\* no session of the day reaches beyond five minutes after its last tick or
\* starts at a tick of another day's reading
withinDay(dayId, T) ==
    \A s \in 1..Len(csvSessionsNow) :
        csvSessionsNow[s].dayId = dayId =>
            /\ \E i \in 1..Len(T) : T[i].time = csvSessionsNow[s].startTime
            /\ \/ \E i \in 1..Len(T) : T[i].time = csvSessionsNow[s].endTime
               \/ csvSessionsNow[s].endTime
                     = minutesToTime(timeToMinutes(T[Len(T)].time) + 5)

\* C26: a run still open when a day ends, at the end of the input or at the
\* date row of the next day, is closed five minutes after that day's last
\* tick and belongs to the day in which it was opened; the next day starts
\* with no run open, and every session of a day starts and ends within that
\* day's own ticks.
C26_OpenRunsClosedAtDayEnd ==
    /\ \A dayId \in finishedDays, si \in 1..Len(csv.p.globalStaffNames) :
          openRunClosed(dayId, si, dayTicks(dayId))
    /\ \A dayId \in 1..csv.p.currentDayId : withinDay(dayId, dayTicks(dayId))
    /\ (csv.phase = "rows" /\ dayTicks(csv.p.currentDayId) = <<>>) =>
          \A si \in 1..Len(csv.p.activePerStaff) : csv.p.activePerStaff[si] = <<>>

\* C26 witness: a parse of two days ended; on the first day, closed by the
\* date row of the second, and on the second, closed by the end of the
\* input, some column held a label at the last tick
C26_Witness ==
    /\ csv.phase = "done"
    /\ csv.p.currentDayId = 2
    /\ \A dayId \in {1, 2} :
          /\ dayTicks(dayId) # <<>>
          /\ \E si \in 1..Len(csv.p.globalStaffNames) :
                dayTicks(dayId)[Len(dayTicks(dayId))].labels[si] # ""

(***************************************************************************)
(* The states of the CSV parser (specification SpecCsv)                    *)
(***************************************************************************)
\* the row the loop is about to handle is a date row met in READING_DATA
dateRowInData ==
    /\ csvMoreRows
    /\ csv.p.state = "READING_DATA"
    /\ detectDateInRow(csv.p.rows[csv.p.rowIdx]) # ""
    /\ ~isTimeRow(csv.p.rows[csv.p.rowIdx])

\* the step closed the current day and created the next one
dayClosedAndOpened ==
    /\ csv'.p.state = "SEEK_HEADER"
    /\ csv'.p.currentDayId = csv.p.currentDayId + 1
    /\ Len(csv'.p.dayResults) = Len(csv.p.dayResults) + 1
    /\ csv'.p.dayResults[Len(csv'.p.dayResults)].dayId = csv.p.currentDayId
    /\ SubSeq(csv'.p.dayResults, 1, Len(csv.p.dayResults)) = csv.p.dayResults
    /\ Len(csv'.p.allDays) = Len(csv.p.allDays) + 1
    /\ csv'.p.allDays[Len(csv'.p.allDays)].id = csv.p.currentDayId + 1
    /\ csv'.p.allDays[Len(csv'.p.allDays)].date
          = detectDateInRow(csv.p.rows[csv.p.rowIdx])
    /\ SubSeq(csv'.p.allDays, 1, Len(csv.p.allDays)) = csv.p.allDays

\* the days discovered so far are numbered 1..N in the order of discovery
dayIdsInOrder(days) == \A i \in 1..Len(days) : days[i].id = i

\* C27: a row met in READING_DATA that holds a date and is not a time row
\* closes the current day, creates the day numbered one above it and moves
\* to SEEK_HEADER; the days are numbered 1..N in the order of discovery,
\* the day results likewise; SEEK_DAY is not entered again once it was left.
C27_DateRowStartsNextDay ==
    [][/\ dateRowInData => dayClosedAndOpened
       /\ csv.p.state # "SEEK_DAY" => csv'.p.state # "SEEK_DAY"
       /\ dayIdsInOrder(csv'.p.allDays)
       /\ Len(csv'.p.allDays) = csv'.p.currentDayId
       /\ \A i \in 1..Len(csv'.p.dayResults) : csv'.p.dayResults[i].dayId = i
       /\ csv'.phase = "done" =>
             /\ csv'.p.currentDayId > 0 => csv'.result.days = csv'.p.allDays
             /\ \A i \in 1..Len(csv'.result.dayResults) :
                   csv'.result.dayResults[i].dayId = i]_vars

\* C27 witness: the parser is in SEEK_HEADER on its second day, which only
\* a date row met in READING_DATA brings about, with ticks of the first day
\* read
C27_Witness ==
    /\ csv.phase = "rows"
    /\ csv.p.state = "SEEK_HEADER"
    /\ csv.p.currentDayId = 2
    /\ dayTicks(1) # <<>>
    /\ Len(csv.p.dayResults) = 1

(***************************************************************************)
(* A day without a staff header (specification SpecCsv)                    *)
(***************************************************************************)
\* in SEEK_HEADER with the staff known, the row about to be handled is a
\* time row
timeRowBeforeHeader ==
    /\ csvMoreRows
    /\ csv.p.state = "SEEK_HEADER"
    /\ Len(csv.p.globalStaffNames) > 0
    /\ isTimeRow(csv.p.rows[csv.p.rowIdx])

\* the step went to READING_DATA with the staff kept, no run open and the
\* same row still to be handled
keptForReading ==
    /\ csv'.p.state = "READING_DATA"
    /\ csv'.p.globalStaffNames = csv.p.globalStaffNames
    /\ csv'.p.globalStaff = csv.p.globalStaff
    /\ \A si \in 1..Len(csv'.p.activePerStaff) : csv'.p.activePerStaff[si] = <<>>
    /\ Len(csv'.p.activePerStaff) = Len(csv.p.globalStaffNames)
    /\ csv'.p.rowIdx = csv.p.rowIdx
    /\ csv'.p.currentDayId = csv.p.currentDayId

\* in READING_DATA the row about to be handled is the first time row of the
\* current day
firstTickOfDay ==
    /\ csvMoreRows
    /\ csv.p.state = "READING_DATA"
    /\ isTimeRow(csv.p.rows[csv.p.rowIdx])
    /\ dayTicks(csv.p.currentDayId) = <<>>

\* the step opened, for every staff column with a label in the row, a run
\* of that label starting at the row's time
runsOpenedAtTick ==
    /\ csv'.p.lastTime = csv.p.rows[csv.p.rowIdx][1].time
    /\ \A si \in 1..Len(csv.p.globalStaffNames) :
          IF cellAt(csv.p.rows[csv.p.rowIdx], si).text # ""
          THEN csv'.p.activePerStaff[si]
                  = [roleName |-> cellAt(csv.p.rows[csv.p.rowIdx], si).text,
                     startTime |-> csv.p.rows[csv.p.rowIdx][1].time]
          ELSE csv'.p.activePerStaff[si] = <<>>

\* C28: in SEEK_HEADER with the staff list already discovered, a time row
\* moves the parser to READING_DATA with that staff list and no run open,
\* and the same row is then handled as the first tick of the new day: its
\* non-blank cells open runs starting at that tick.
C28_HeaderlessDayKeepsFirstTick ==
    [][/\ timeRowBeforeHeader => keptForReading
       /\ firstTickOfDay => runsOpenedAtTick]_vars

(***************************************************************************)
(* Roles found and created by the CSV parser (specification SpecCsv)       *)
(***************************************************************************)
roleNamesOf(roles) == {roles[i].name : i \in 1..Len(roles)}

\* roles and assignments after the step: the result's once it is built
rolesAfter == IF csv'.phase = "done" THEN csv'.result.roles ELSE csv'.p.allRoles
assignmentsAfter ==
    IF csv'.phase = "done" THEN csv'.result.assignments ELSE csv'.p.allAssignments

\* the staff columns whose run the step closed with an assignment
closedColumns ==
    {si \in 1..Len(csv.p.globalStaff) :
        \E a \in (Len(csv.p.allAssignments) + 1)..Len(assignmentsAfter) :
            assignmentsAfter[a].staffId = csv.p.globalStaff[si].id}

\* the labels of the runs the step closed
closedLabels == {csv.p.activePerStaff[si].roleName : si \in closedColumns}

\* the role the assignment closed for column si points at carries the
\* label of the run; it is the role known before the step when there was one
roleOfClosedRun(si) ==
    \A a \in (Len(csv.p.allAssignments) + 1)..Len(assignmentsAfter) :
        assignmentsAfter[a].staffId = csv.p.globalStaff[si].id =>
            \E r \in 1..Len(rolesAfter) :
                /\ rolesAfter[r].id = assignmentsAfter[a].roleId
                /\ rolesAfter[r].name = csv.p.activePerStaff[si].roleName
                /\ (r <= Len(csv.p.allRoles))
                      = (csv.p.activePerStaff[si].roleName
                            \in roleNamesOf(csv.p.allRoles))

\* the role appended at place k (1-based) is white on the palette colour of
\* the number of roles before it, and its name was unknown before it
appendedRole(roles, k) ==
    /\ roles[k].textColor = "#ffffff"
    /\ roles[k].color = ROLE_PALETTE[((k - 1) % 10) + 1]
    /\ roles[k].name # ""
    /\ roles[k].name \notin roleNamesOf(SubSeq(roles, 1, k - 1))
    /\ \A j \in 1..(k - 1) : roles[j].id # roles[k].id

\* C29: a label that names a role already in the list reuses that role and
\* creates none; a label not yet known creates exactly one role, appended
\* to the list, with white text and the colour palette[i mod 10] for the i
\* roles in the list before it; the roles passed in stay, unchanged, the
\* first of the list.
C29_RolesReusedOrAppended ==
    [][csv.phase = "rows" =>
        /\ Len(rolesAfter) >= Len(csv.p.allRoles)
        /\ SubSeq(rolesAfter, 1, Len(csv.p.allRoles)) = csv.p.allRoles
        /\ SubSeq(rolesAfter, 1, Len(csv.currentRoles)) = csv.currentRoles
        /\ \A k \in (Len(csv.p.allRoles) + 1)..Len(rolesAfter) :
              appendedRole(rolesAfter, k)
        /\ roleNamesOf(rolesAfter) = roleNamesOf(csv.p.allRoles) \cup closedLabels
        /\ Len(rolesAfter) - Len(csv.p.allRoles)
              = Cardinality(closedLabels \ roleNamesOf(csv.p.allRoles))
        /\ \A si \in closedColumns : roleOfClosedRun(si)]_vars

\* C29 witness: a parse into a project of ten roles ended with 'support'
\* reused for an assignment and 'happyo' appended as the eleventh role, in
\* the first colour of the palette
C29_Witness ==
    /\ csv.phase = "done"
    /\ csv.currentRoles = TenRoles
    /\ Len(csv.result.roles) = 11
    /\ csv.result.roles[11].name = "happyo"
    /\ csv.result.roles[11].color = ROLE_PALETTE[1]
    /\ \E a \in 1..Len(csv.result.assignments) :
          csv.result.assignments[a].roleId = TenRoles[1].id
    /\ \E a \in 1..Len(csv.result.assignments) :
          csv.result.assignments[a].roleId = csv.result.roles[11].id

(***************************************************************************)
(* Sessions of the CSV parser's result (specification SpecCsv)             *)
(***************************************************************************)
sameSlot(s, t) ==
    s.dayId = t.dayId /\ s.startTime = t.startTime /\ s.endTime = t.endTime

\* the sessions of the result that staff member si is assigned to
assignedSessions(si) ==
    {k \in 1..Len(csv.result.sessions) :
        \E a \in 1..Len(csv.result.assignments) :
            /\ csv.result.assignments[a].staffId = csv.result.staff[si].id
            /\ csv.result.assignments[a].sessionId = csv.result.sessions[k].id}

\* one session of the result, of that day and interval, takes the runs of
\* both columns
sharedSession(dayId, si, sj, start, end) ==
    \E k \in assignedSessions(si) \cap assignedSessions(sj) :
        /\ csv.result.sessions[k].dayId = dayId
        /\ csv.result.sessions[k].startTime = start
        /\ csv.result.sessions[k].endTime = end

\* C30: in the result no two sessions have the same day, start and end;
\* runs of two staff columns over the same interval of the same day are
\* assigned to one and the same session, which is of that day and interval;
\* every assignment's sessionId is the id of exactly one session of the
\* result.
C30_MergedSessions ==
    csv.phase = "done" =>
        /\ \A i, j \in 1..Len(csv.result.sessions) :
              sameSlot(csv.result.sessions[i], csv.result.sessions[j]) => i = j
        /\ \A a \in 1..Len(csv.result.assignments) :
              Cardinality({k \in 1..Len(csv.result.sessions) :
                  csv.result.sessions[k].id = csv.result.assignments[a].sessionId}) = 1
        /\ \A dayId \in 1..csv.p.currentDayId :
              \A si, sj \in 1..Len(csv.result.staff) :
                  \A r \in 1..Len(runsOf(dayId, si)), q \in 1..Len(runsOf(dayId, sj)) :
                      (/\ si # sj
                       /\ runsOf(dayId, si)[r][1] = runsOf(dayId, sj)[q][1]
                       /\ runsOf(dayId, si)[r][2] = runsOf(dayId, sj)[q][2])
                      => sharedSession(dayId, si, sj, runsOf(dayId, si)[r][1],
                                       runsOf(dayId, si)[r][2])

\* C30 witness: a parse of two days ended in which two columns had runs of
\* different labels over one interval, given one session, and the second
\* day has a session of the same start and end as one of the first day
C30_Witness ==
    /\ csv.phase = "done"
    /\ \E a, b \in 1..Len(csv.result.assignments) :
          /\ csv.result.assignments[a].staffId # csv.result.assignments[b].staffId
          /\ csv.result.assignments[a].roleId # csv.result.assignments[b].roleId
          /\ csv.result.assignments[a].sessionId = csv.result.assignments[b].sessionId
    /\ \E i, j \in 1..Len(csv.result.sessions) :
          /\ csv.result.sessions[i].dayId # csv.result.sessions[j].dayId
          /\ csv.result.sessions[i].startTime = csv.result.sessions[j].startTime
          /\ csv.result.sessions[i].endTime = csv.result.sessions[j].endTime

(***************************************************************************)
(* Reordering at the ends of a day (specification Spec)                    *)
(***************************************************************************)
\* the place (1-based) of session id in the order of its day, 0 if absent
posInDayOf(sessions, id) ==
    LET IsIt(s) == s.id = id
        k == FindIndex(sessions, IsIt)
    IN  IF k = 0 THEN 0
        ELSE FindIndex(daySessionsOf(sessions, sessions[k].dayId), IsIt)

\* the day of session id
dayOfSession(sessions, id) ==
    LET IsIt(s) == s.id = id
    IN  sessions[FindIndex(sessions, IsIt)].dayId

sessionIdSet(sessions) == {sessions[i].id : i \in 1..Len(sessions)}

\* C31: reorderSession moves a session by at most one place within its own
\* day; asked to move the first session of a day up, the last one down or a
\* session that does not exist, it leaves the whole document unchanged; no
\* reorder changes the set of sessions or the day a session belongs to.
C31_ReorderAtMostOnePlace ==
    last.op = "reorderSession" =>
        /\ Len(data.sessions) = Len(prevData.sessions)
        /\ sessionIdSet(data.sessions) = sessionIdSet(prevData.sessions)
        /\ \A id \in sessionIdSet(prevData.sessions) :
              /\ dayOfSession(data.sessions, id) = dayOfSession(prevData.sessions, id)
              /\ posInDayOf(data.sessions, id) - posInDayOf(prevData.sessions, id)
                    \in {0 - 1, 0, 1}
              /\ id # last.args.sessionId =>
                    \/ posInDayOf(data.sessions, id) = posInDayOf(prevData.sessions, id)
                    \/ posInDayOf(data.sessions, id)
                          = posInDayOf(prevData.sessions, last.args.sessionId)
        /\ ~C9_Case => data = prevData

\* C31 witness: the first session of a day of several sessions was asked to
\* move up, after an earlier mutation of the document
C31_Witness ==
    /\ last.op = "reorderSession"
    /\ last.args.direction = "up"
    /\ posInDayOf(prevData.sessions, last.args.sessionId) = 1
    /\ Len(daySessionsOf(prevData.sessions,
             dayOfSession(prevData.sessions, last.args.sessionId))) > 1
    /\ prevData # DEFAULT_SHIFT_DATA
    /\ data = prevData

(***************************************************************************)
(* Termination of the CSV parser (specification SpecCsvFair): the row loop *)
(* is sequential code that runs until its condition fails, so a step that  *)
(* can be taken is taken.                                                  *)
(***************************************************************************)
\* a step of NextCsv that changes the state can be taken: the result is not
\* built yet and the iteration of the loop, if one is left, changes the
\* parser state
csvStepEnabled ==
    /\ csv.phase = "rows"
    /\ csvMoreRows => csvRow(csv.p) # csv.p

\* weak fairness of NextCsv, with ENABLED <<NextCsv>>_vars written as
\* csvStepEnabled
csvWeakFairness == []<>(~csvStepEnabled) \/ []<><<NextCsv>>_vars

SpecCsvFair == InitCsv /\ [][NextCsv]_vars /\ csvWeakFairness

\* a step of the row loop moves to the next row, or keeps the row while
\* going from SEEK_HEADER to READING_DATA at a time row; a row met in
\* READING_DATA is never kept
rowHandledAtMostTwice ==
    csvMoreRows =>
        /\ csv'.phase = "rows"
        /\ \/ csv'.p.rowIdx = csv.p.rowIdx + 1
           \/ /\ csv'.p.rowIdx = csv.p.rowIdx
              /\ csv.p.state = "SEEK_HEADER"
              /\ csv'.p.state = "READING_DATA"
              /\ isTimeRow(csv.p.rows[csv.p.rowIdx])
        /\ csv.p.state = "READING_DATA" => csv'.p.rowIdx = csv.p.rowIdx + 1
        /\ csv'.p.rows = csv.p.rows

\* past the last row the result is built, with the last day finalized once:
\* one more day result than before, for the current day, the last one
lastDayFinalizedOnce ==
    (csv.phase = "rows" /\ ~csvMoreRows) =>
        /\ csv'.phase = "done"
        /\ csv.p.rowIdx = Len(csv.p.rows) + 1
        /\ Len(csv.p.dayResults) = (IF csv.p.currentDayId = 0 THEN 0
                                    ELSE csv.p.currentDayId - 1)
        /\ Len(csv'.result.dayResults) = csv.p.currentDayId
        /\ SubSeq(csv'.result.dayResults, 1, Len(csv.p.dayResults)) = csv.p.dayResults
        /\ csv.p.currentDayId > 0 =>
              csv'.result.dayResults[csv.p.currentDayId].dayId = csv.p.currentDayId

\* C32: parseCSV terminates on every input: a row is handled at most twice
\* (the second time only after SEEK_HEADER kept a time row for
\* READING_DATA), the row index passes the last row, and then the last day
\* is finalized exactly once and the result built.
C32_ParseTerminates ==
    /\ [][rowHandledAtMostTwice /\ lastDayFinalizedOnce]_vars
    /\ <>(csv.phase = "done")

\* C32 witness: a parse of two days ended whose second day had ticks but no
\* staff header of its own, so that its first time row was handled twice
C32_Witness ==
    /\ csv.phase = "done"
    /\ csv.p.currentDayId = 2
    /\ dayTicks(2) # <<>>
    /\ Cardinality({i \in 1..Len(csv.p.rows) :
            isStaffHeaderRow(csv.p.rows[i]) /\ ~isTimeRow(csv.p.rows[i])}) = 1
    /\ Len(csv.result.dayResults) = 2

(***************************************************************************)
(* The parsed CSV imported into the store (specification Spec)             *)
(***************************************************************************)
\* what handleImport hands to importData for the fixture, parsed with the
\* roles the store held
importedFixture == parseCSV(CanonicalFixture, prevData.roles)

\* the session holds, in the store, the times the parser gave it
keepsParsedTimes(parsed) ==
    \E i \in 1..Len(data.sessions) :
        /\ data.sessions[i].id = parsed.id
        /\ data.sessions[i].dayId = parsed.dayId
        /\ data.sessions[i].startTime = parsed.startTime
        /\ data.sessions[i].endTime = parsed.endTime

\* C33: after the result of a CSV parse is imported into the store, every
\* imported session has in the store the startTime and endTime the parser
\* derived from the time ticks.
C33_ImportKeepsParsedTimes ==
    last.op = "importData" =>
        \A k \in 1..Len(importedFixture.sessions) :
            keepsParsedTimes(importedFixture.sessions[k])

(***************************************************************************)
(* References held by overrides and assignments (specification SpecSeeded) *)
(***************************************************************************)
roleIdSet(d) == {d.roles[i].id : i \in 1..Len(d.roles)}
staffIdSet(d) == {d.staff[i].id : i \in 1..Len(d.staff)}

\* the roleIds of the session-level overrides of the document
overrideRoleIds(d) ==
    UNION {{OrElse(d.assignments[a], "overrides", <<>>)[o].roleId :
                o \in 1..Len(OrElse(d.assignments[a], "overrides", <<>>))} :
           a \in 1..Len(d.assignments)}

staffOverrideRoleIds(d) == {d.staffOverrides[i].roleId : i \in 1..Len(d.staffOverrides)}

\* C34: in every reachable state of the store, the roleId of every
\* session-level Override and of every StaffOverride is the id of a Role of
\* the document.
C34_OverrideRolesExist ==
    /\ overrideRoleIds(data) \subseteq roleIdSet(data)
    /\ staffOverrideRoleIds(data) \subseteq roleIdSet(data)

\* every assignment of the document points at a session, a staff member and
\* a role of the document
assignmentRefsExist(d) ==
    \A a \in 1..Len(d.assignments) :
        /\ d.assignments[a].sessionId \in sessionIdSet(d.sessions)
        /\ d.assignments[a].staffId \in staffIdSet(d)
        /\ d.assignments[a].roleId \in roleIdSet(d)

\* the last mutation, if it was setAssignment with a role, named a session,
\* a staff member and a role of the document
setAssignmentOnExisting ==
    (last.op = "setAssignment" /\ last.args.roleId # <<>>) =>
        /\ last.args.sessionId \in sessionIdSet(prevData.sessions)
        /\ last.args.staffId \in staffIdSet(prevData)
        /\ last.args.roleId \in roleIdSet(prevData)

\* C35: the store mutations keep the references of the assignments intact:
\* from a document in which every Assignment's sessionId, staffId and roleId
\* name a Session, StaffMember and Role of the document, a mutation (for
\* setAssignment: called with ids of existing entities) leads to such a
\* document; the default document is one.
C35_AssignmentRefsExist ==
    /\ assignmentRefsExist(DEFAULT_SHIFT_DATA)
    /\ (assignmentRefsExist(prevData) /\ setAssignmentOnExisting)
          => assignmentRefsExist(data)

\* C35 witness: a staff member, a role or a session that assignments
\* pointed at was removed, and assignments are left
C35_Witness ==
    /\ last.op \in {"removeStaff", "removeRole", "removeSession"}
    /\ assignmentRefsExist(prevData)
    /\ Len(data.assignments) < Len(prevData.assignments)
    /\ Len(data.assignments) > 0

(***************************************************************************)
(* Session-level overrides outside their session (specification SpecGrid)  *)
(***************************************************************************)
\* the session of the document with that id, <<>> when there is none
sessionById(d, id) ==
    LET IsIt(s) == s.id = id
    IN  IF FindIndex(d.sessions, IsIt) = 0 THEN <<>>
        ELSE d.sessions[FindIndex(d.sessions, IsIt)]

\* the slot lies in [session.startTime, session.endTime)
slotInSession(session, slot) ==
    /\ timeToMinutes(session.startTime) <= timeToMinutes(slot)
    /\ timeToMinutes(slot) < timeToMinutes(session.endTime)

\* the grid row of the shown day as it would be without the override
rowWithoutOverride(a, ov, slot) ==
    LET in == dayGridInputs(removeOverride(gridv.doc, a.sessionId, a.staffId, ov.id),
                            gridv.dayId)
    IN  [c \in 1..Len(gridv.doc.staff) |->
            cellOfInputs(in, gridv.doc.staff[c].id, slot)]

\* C36: a session-level Override does not affect a slot outside its parent
\* session: for every Override, also one whose offsets are negative or
\* exceed the session's duration, the resolved cells of every slot outside
\* [session.startTime, session.endTime) are what they would be without it.
C36_OverrideStaysInSession ==
    gridResolved =>
        \A a \in 1..Len(gridv.doc.assignments) :
            \A k \in 1..Len(gridv.doc.assignments[a].overrides) :
                \A r \in 1..Len(gridSlots) :
                    ~slotInSession(sessionById(gridv.doc, gridv.doc.assignments[a].sessionId),
                                   gridSlots[r])
                    => gridv.grid[r]
                          = rowWithoutOverride(gridv.doc.assignments[a],
                                               gridv.doc.assignments[a].overrides[k],
                                               gridSlots[r])

\* the slots of the grid that lie outside the session but inside the
\* interval the override's offsets span from the session's start
slotsBeyond(session, ov) ==
    {r \in 1..Len(gridSlots) :
        /\ ~slotInSession(session, gridSlots[r])
        /\ timeToMinutes(session.startTime) + ov.startOffsetMinutes
              <= timeToMinutes(gridSlots[r])
        /\ timeToMinutes(gridSlots[r])
              < timeToMinutes(session.startTime) + ov.endOffsetMinutes}

\* C36 witness: the shown day has an override that starts before its
\* session and ends after it; of the slots it spans outside the session one
\* shows the staff member's role in the next session and one is empty
C36_Witness ==
    /\ gridResolved
    /\ \E a \in 1..Len(gridv.doc.assignments) :
          \E k \in 1..Len(gridv.doc.assignments[a].overrides) :
              LET session == sessionById(gridv.doc, gridv.doc.assignments[a].sessionId)
                  ov == gridv.doc.assignments[a].overrides[k]
              IN  /\ session.dayId = gridv.dayId
                  /\ ov.startOffsetMinutes < 0
                  /\ ov.endOffsetMinutes > session.durationMinutes
                  /\ \E r \in slotsBeyond(session, ov) :
                        /\ gridv.grid[r][1].roleId = <<"role", 2>>
                        /\ ~gridv.grid[r][1].isOverride
                  /\ \E r \in slotsBeyond(session, ov) : gridv.grid[r][1] = EMPTY_CELL

(***************************************************************************)
(* setAssignment on a pair that has an assignment (specification           *)
(* SpecSeeded)                                                             *)
(***************************************************************************)
\* the places of the assignments of the pair in the list
pairPlaces(assignments, sessionId, staffId) ==
    {i \in 1..Len(assignments) :
        assignments[i].sessionId = sessionId /\ assignments[i].staffId = staffId}

\* record b is record a with another roleId and nothing else changed
onlyRoleIdChanged(a, b, roleId) ==
    /\ DOMAIN b = DOMAIN a
    /\ b.roleId = roleId
    /\ \A f \in (DOMAIN a) \ {"roleId"} : b[f] = a[f]

\* C37: setAssignment with a non-empty roleId on a (session, staff) pair
\* that already has an Assignment changes only that Assignment's roleId: its
\* overrides, its note and its place in the list are kept and every other
\* assignment is unchanged; with an empty roleId the pair's Assignment is
\* removed together with all of its Overrides.
C37_SetAssignmentOnExistingPair ==
    (/\ last.op = "setAssignment"
     /\ pairPlaces(prevData.assignments, last.args.sessionId, last.args.staffId) # {})
    => LET places == pairPlaces(prevData.assignments, last.args.sessionId, last.args.staffId)
           NotPair(a) == ~(a.sessionId = last.args.sessionId /\ a.staffId = last.args.staffId)
           removedIds == UNION {{prevData.assignments[i].overrides[k].id :
                                    k \in 1..Len(prevData.assignments[i].overrides)} :
                                i \in places}
       IN  /\ restUnchanged({"assignments"})
           /\ IF last.args.roleId # <<>>
              THEN /\ Len(data.assignments) = Len(prevData.assignments)
                   /\ \A i \in 1..Len(prevData.assignments) :
                         IF i \in places
                         THEN onlyRoleIdChanged(prevData.assignments[i],
                                                data.assignments[i], last.args.roleId)
                         ELSE data.assignments[i] = prevData.assignments[i]
              ELSE /\ data.assignments = Filter(prevData.assignments, NotPair)
                   /\ pairPlaces(data.assignments, last.args.sessionId,
                                 last.args.staffId) = {}
                   /\ \A i \in 1..Len(data.assignments), k \in 1..4 :
                         k <= Len(data.assignments[i].overrides)
                         => data.assignments[i].overrides[k].id \notin removedIds

\* C37 witness: an assignment with a note and an override was given another
\* role, next to two other assignments
C37_Witness ==
    /\ last.op = "setAssignment"
    /\ last.args.roleId # <<>>
    /\ Len(prevData.assignments) >= 3
    /\ \E i \in pairPlaces(prevData.assignments, last.args.sessionId, last.args.staffId) :
          /\ prevData.assignments[i].roleId # last.args.roleId
          /\ "note" \in DOMAIN prevData.assignments[i]
          /\ prevData.assignments[i].note = "memo"
          /\ Len(prevData.assignments[i].overrides) >= 1
          /\ data.assignments[i].roleId = last.args.roleId

(***************************************************************************)
(* Override and note operations on a pair without an assignment            *)
(* (specification SpecSeeded)                                              *)
(***************************************************************************)
pairOperations == {"addOverride", "updateOverride", "removeOverride", "setAssignmentNote"}

\* the number of overrides stored in the assignments of the document
storedOverrides(d) ==
    Cardinality({<<i, k>> \in (1..Len(d.assignments)) \X (1..4) :
                    k <= Len(d.assignments[i].overrides)})

\* the last mutation was one of the four on a pair that had no assignment
onUnassignedPair ==
    /\ last.op \in pairOperations
    /\ pairPlaces(prevData.assignments, last.args.sessionId, last.args.staffId) = {}

\* C38: addOverride, updateOverride, removeOverride and setAssignmentNote on
\* a (sessionId, staffId) pair that has no Assignment leave the document's
\* assignments unchanged: no Assignment is created and no Override is stored
\* anywhere.
C38_NoAssignmentNoEffect ==
    onUnassignedPair =>
        /\ data.assignments = prevData.assignments
        /\ pairPlaces(data.assignments, last.args.sessionId, last.args.staffId) = {}
        /\ storedOverrides(data) = storedOverrides(prevData)

\* C38 witness: an override was added for a pair whose assignment had been
\* removed, while another assignment held an override
C38_Witness ==
    /\ onUnassignedPair
    /\ last.op = "addOverride"
    /\ Len(prevData.assignments) >= 2
    /\ storedOverrides(prevData) >= 1

====
